---- MODULE Spec2Model ----
(***************************************************************************)
(* Model of the navigation data compiler of atools:                        *)
(*   - NavDatabase (pipeline orchestrator): create(), createInternal(),    *)
(*     createSchemaInternal(), loadDfd(), loadXplane(), loadFsxP3d*(),     *)
(*     basicValidation(), createDatabaseReport(), runScript()              *)
(*   - DfdCompiler (relational source adapter): writeAirports(),           *)
(*     writeRunways(), writeRunwaysForAirport(), pairRunways(), ...        *)
(*   - MetarIndex (METAR cache with a spatial index): read(), clear(),     *)
(*     getMetar()                                                          *)
(* The output store is a set of items; `db` is what is committed, `tx` is  *)
(* what the connection sees (committed plus uncommitted changes).          *)
(***************************************************************************)
EXTENDS Integers, Sequences, FiniteSets, TLC

VARIABLES
    sim,          \* options->getSimulatorType()
    opts,         \* NavDatabaseOptions: the boolean options and included object types
    pc,           \* index of the next statement of createInternal()
    curFn,        \* the function the next statement belongs to; "create": createInternal
                  \* has returned; "done": create() has returned
    aborted,      \* NavDatabase::aborted
    requested,    \* history: the progress callback has requested cancellation
    result,       \* ResultFlags returned by create()
    db,           \* committed content of the output store
    tx,           \* content seen by the connection (db plus uncommitted changes)
    log,          \* history: names of the steps that have acted on the store, in order
    dfd,          \* DfdCompiler members: id counters and airport index
    attached,     \* the source database is attached as 'src'
    progressCur,  \* progress steps reported so far
    run,          \* number of the compile run against this store
    dbStart,      \* committed store content when the current run started
    rolledBack,   \* create() has called db->rollback()
    runways,      \* writeRunwaysForAirport: the collected runway records of one airport
    runwaypairs,  \* writeRunwaysForAirport: the pairs produced by pairRunways
    airways,      \* writeAirways: the rows of the airway query, in query order
    procedures,   \* writeProcedure: the rows of the procedure query, in query order
    procState,    \* writeProcedure: the locals num, curAirport and procInput, and the
                  \* calls made to the procedure writer so far
    identIndexMap,  \* MetarIndex::identIndexMap: station identifier to the position of
                    \* its entry in the spatial index
    spatialIndex,   \* MetarIndex::spatialIndex: the entries of all stations
    latestSeen,     \* history: for every station the latest timestamp read since the
                    \* index was cleared
    lastRead,       \* history: stream, merge flag and result of the last read()
    metarResult,    \* history: the last getMetar() request and its result
    navaids,        \* the navaid passes: the tables airport, waypoint, ndb and vor, the
                    \* tables as they were loaded and the passes that have run
    approach        \* Approach::Approach: the record in the stream, the stream offset,
                    \* the members read so far and the history of the sub-record loop

vars == <<sim, opts, pc, curFn, aborted, requested, result, db, tx, log, dfd, attached,
          progressCur, run, dbStart, rolledBack, runways, runwaypairs, airways,
          procedures, procState, identIndexMap, spatialIndex, latestSeen, lastRead,
          metarResult, navaids, approach>>

\* The variables of NavDatabase that the functions of DfdCompiler leave alone
runVars == <<sim, opts, pc, aborted, requested, result, db, attached, progressCur, run,
             dbStart, rolledBack>>

\* The inputs and results of the functions of DfdCompiler that are examined alone
unitVars == <<runways, runwaypairs, airways, procedures, procState>>

\* The METAR index and the history kept about it
metarVars == <<identIndexMap, spatialIndex, latestSeen, lastRead, metarResult>>

\* The tables of the passes that are examined alone
passVars == <<navaids, approach>>

\* The variables of the run and of the functions of DfdCompiler examined alone
dfdVars == <<runVars, curFn, tx, log, dfd, unitVars>>

\* The variables of the compiler, which the METAR index leaves alone
compilerVars == <<dfdVars, passVars>>

-----------------------------------------------------------------------------
(* Bounds of the model *)

\* Largest number of runway ends of one airport in the runway pairing inputs
MaxEnds == 3

\* Scenery areas of an FSX/P3D/MSFS scenery configuration
NumAreas == 2

\* Files of one scenery area, each reported as one progress step when it is read
FilesPerArea == 1

\* Largest number of rows of a navaid table
MaxNavRows == 2

\* The largest number of sub-records of an approach record
MaxSubRecords == 2

\* Number of option settings that differ from the defaults in one run
MaxOptionsOff == 2

\* Largest number of rows of the airway query
MaxAirwayRows == 5

\* Largest number of rows of a procedure query
MaxProcRows == 4

\* Largest number of METAR records in one stream
MaxMetars == 2

-----------------------------------------------------------------------------
(* Program constants *)

PROGRESS_NUM_TASK_STEPS == 10
PROGRESS_NUM_SCRIPT_STEPS == PROGRESS_NUM_TASK_STEPS
PROGRESS_NUM_RESOLVE_AIRWAY_STEPS == 1000
PROGRESS_NUM_SCHEMA_STEPS == 8

-----------------------------------------------------------------------------
(* QString helpers: a string is a sequence of one-character strings *)

Digits == <<"0", "1", "2", "3", "4", "5", "6", "7", "8", "9">>

\* QString::startsWith
startsWith(s, prefix) == Len(s) >= Len(prefix) /\ SubSeq(s, 1, Len(prefix)) = prefix

\* QString::mid(position): the string from 0-based position to the end
Mid(s, position) ==
    IF position >= Len(s) THEN <<>> ELSE SubSeq(s, position + 1, Len(s))

\* QString::mid(position, n)
MidN(s, position, n) ==
    IF position >= Len(s) THEN <<>>
    ELSE SubSeq(s, position + 1, IF position + n > Len(s) THEN Len(s) ELSE position + n)

DigitVal(c) == CHOOSE d \in 0..9 : Digits[d + 1] = c

IsDigit(c) == \E d \in 0..9 : Digits[d + 1] = c

RECURSIVE ToIntAcc(_, _)
ToIntAcc(s, acc) ==
    IF s = <<>> THEN acc ELSE ToIntAcc(Tail(s), acc * 10 + DigitVal(Head(s)))

\* QString::toInt(): 0 when the string is no number
ToInt(s) ==
    IF s # <<>> /\ \A i \in 1..Len(s) : IsDigit(s[i]) THEN ToIntAcc(s, 0) ELSE 0

RECURSIVE NumberStr(_)
\* QString::number(n) for n >= 0
NumberStr(n) ==
    IF n < 10 THEN <<Digits[n + 1]>> ELSE NumberStr(n \div 10) \o <<Digits[(n % 10) + 1]>>

-----------------------------------------------------------------------------
(* Geometry helpers (atools::geo), on whole degrees *)

normalizeCourse(c) == c % 360

opposedCourseDeg(c) == normalizeCourse(c + 180)

\* Positions are whole meters east (lonx) and north (laty) of a local origin
Pos(lonx, laty) == [lonx |-> lonx, laty |-> laty]

\* Pos::POS_EPSILON_100M: the distance that stands for about 100 meter
POS_EPSILON_100M == 100

\* atools::geo::feetToMeter
feetToMeter(ft) == (ft * 3048) \div 10000

\* Pos::endpoint(distance, heading): the heading is taken to the nearest of north, east,
\* south and west
Endpoint(pos, dist, heading) ==
    LET q == ((normalizeCourse(heading) + 45) \div 90) % 4
    IN  IF q = 0 THEN Pos(pos.lonx, pos.laty + dist)
        ELSE IF q = 1 THEN Pos(pos.lonx + dist, pos.laty)
        ELSE IF q = 2 THEN Pos(pos.lonx, pos.laty - dist)
        ELSE Pos(pos.lonx - dist, pos.laty)

\* Rect(pos): the rectangle of a single point
RectOf(pos) ==
    [valid |-> TRUE, left |-> pos.lonx, top |-> pos.laty, right |-> pos.lonx,
     bottom |-> pos.laty]

\* Rect(): the default constructed, invalid rectangle
RectInvalid == [valid |-> FALSE, left |-> 0, top |-> 0, right |-> 0, bottom |-> 0]

\* Rect::inflate(width, height)
RectInflate(rect, w, h) ==
    [rect EXCEPT !.left = @ - w, !.right = @ + w, !.top = @ + h, !.bottom = @ - h]

\* Rect::extend(pos): the smallest rectangle that covers the rectangle and the position
RectExtend(rect, pos) ==
    IF ~rect.valid THEN RectOf(pos)
    ELSE [rect EXCEPT !.left = IF pos.lonx < @ THEN pos.lonx ELSE @,
                      !.right = IF pos.lonx > @ THEN pos.lonx ELSE @,
                      !.top = IF pos.laty > @ THEN pos.laty ELSE @,
                      !.bottom = IF pos.laty < @ THEN pos.laty ELSE @]

-----------------------------------------------------------------------------
(* SqlRecord helpers *)

\* SqlRecord::valueBool(name, default)
ValueBool(rec, name, default) ==
    IF name \in DOMAIN rec THEN rec[name] ELSE default

\* SqlRecord::appendField(name) followed by setValue(name, value)
AppendField(rec, name, value) ==
    [f \in (DOMAIN rec) \cup {name} |-> IF f = name THEN value ELSE rec[f]]

-----------------------------------------------------------------------------
(* DfdCompiler::pairRunways *)

\* Variant of OpposedDesig that leaves the side letter as it is
OpposedDesigKept(desig) == desig

\* The designator swap of pairRunways: R <-> L, everything else unchanged
OpposedDesig(desig) ==
    IF desig = <<"R">> THEN <<"L">> ELSE IF desig = <<"L">> THEN <<"R">> ELSE desig

\* The opposed runway number of pairRunways
OpposedRnum(rnum) ==
    IF rnum + 18 > 36 THEN rnum + 18 - 36 ELSE rnum + 18

\* The opposed runway identifier calculated by pairRunways, e.g. RW11R -> RW29L
OpposedRname(rwident) ==
    LET rname == Mid(rwident, 2)
        rnum == ToInt(MidN(rname, 0, 2))
        desig == IF Len(rname) > 2 THEN <<rname[3]>> ELSE <<>>
        opposedRnum == OpposedRnum(rnum)
    IN  <<"R", "W">> \o (IF opposedRnum < 10 THEN <<"0">> ELSE <<>>)
            \o NumberStr(opposedRnum) \o OpposedDesig(desig)

\* Variant of StubEnd that keeps the localizer of the copied end
StubEndKeepIls(rw) ==
    AppendField(
        [rw EXCEPT !.runway_identifier = OpposedRname(rw.runway_identifier),
                   !.displaced_threshold_distance = 0,
                   !.runway_true_bearing = opposedCourseDeg(rw.runway_true_bearing)],
        "is_closed", TRUE)

\* The closed stub end synthesized by pairRunways when no opposite end is found
StubEnd(rw) ==
    AppendField(
        [rw EXCEPT !.runway_identifier = OpposedRname(rw.runway_identifier),
                   !.displaced_threshold_distance = 0,
                   !.llz_identifier = <<>>,
                   !.runway_true_bearing = opposedCourseDeg(rw.runway_true_bearing)],
        "is_closed", TRUE)

\* The search among all runways for the other end: the first record with the opposed name
FindEnd(rws, opposedRname) ==
    LET hits == {j \in 1..Len(rws) : rws[j].runway_identifier = opposedRname}
    IN  IF hits = {} THEN 0 ELSE CHOOSE j \in hits : \A k \in hits : j <= k

RECURSIVE PairLoop(_, _, _, _)
\* The loop of pairRunways from index i on; found is the set of identifiers worked on
PairLoop(rws, i, found, pairs) ==
    IF i > Len(rws) THEN pairs
    ELSE LET rw == rws[i]
             rwident == rw.runway_identifier
             opposedRname == OpposedRname(rwident)
             j == FindEnd(rws, opposedRname)
         IN  IF rwident \in found
             THEN PairLoop(rws, i + 1, found, pairs)
             ELSE IF j # 0
                  THEN PairLoop(rws, i + 1, found \cup {opposedRname, rwident},
                                Append(pairs, <<rw, rws[j]>>))
                  ELSE PairLoop(rws, i + 1, found, Append(pairs, <<rw, StubEnd(rw)>>))

pairRunways(rws) == PairLoop(rws, 1, {}, <<>>)

-----------------------------------------------------------------------------
(* The output store: a set of items (rows, schema objects, changes of a script) *)

\* grp: the schema group of the item's table (the group a drop script removes),
\* tab: table, id: primary key (0: none), key: identifier, fk: foreign key ids,
\* val: further columns
Item(grp, tab, id, key, fk, val) ==
    [grp |-> grp, tab |-> tab, id |-> id, key |-> key, fk |-> fk, val |-> val]

Rows(store, tab) == {r \in store : r.tab = tab}

\* SQLite autogenerated id for an insert into tab: largest id so far plus one
NextAutoId(store, tab) ==
    LET ids == {r.id : r \in Rows(store, tab)}
    IN  IF ids = {} THEN 1 ELSE 1 + (CHOOSE m \in ids : \A k \in ids : k <= m)

-----------------------------------------------------------------------------
(* DfdCompiler: members, airport index and magnetic declination *)

\* The members after construction: counters at zero, empty index and maps
DfdCompilerInit ==
    [curAirportId |-> 0, curRunwayId |-> 0, curRunwayEndId |-> 0,
     airportIndex |-> <<>>, longestRunwaySurfaceMap |-> <<>>, airportRectMap |-> <<>>]

\* AirportIndex::addAirport
AddAirport(index, ident, id) == Append(index, <<ident, id>>)

\* Variant of GetAirportId that gives the first registered id when there is none for
\* ident
GetAirportIdOrFirst(index, ident) ==
    LET hits == {i \in 1..Len(index) : index[i][1] = ident}
    IN  IF hits = {} THEN (IF index = <<>> THEN 0 ELSE index[1][2])
        ELSE index[CHOOSE i \in hits : \A k \in hits : k <= i][2]

\* AirportIndex::getAirportId: the id registered for ident, 0 (null) when there is none
GetAirportId(index, ident) ==
    LET hits == {i \in 1..Len(index) : index[i][1] = ident}
    IN  IF hits = {} THEN 0
        ELSE index[CHOOSE i \in hits : \A k \in hits : k <= i][2]

\* QMap::value(key) of longestRunwaySurfaceMap: empty string when there is no entry
SurfaceOf(map, ident) ==
    LET hits == {i \in 1..Len(map) : map[i][1] = ident}
    IN  IF hits = {} THEN ""
        ELSE map[CHOOSE i \in hits : \A k \in hits : k <= i][2]

\* QMap::value(key) of airportRectMap: a default constructed rectangle when there is no
\* entry
RectValue(map, ident) ==
    LET hits == {i \in 1..Len(map) : map[i][1] = ident}
    IN  IF hits = {} THEN RectInvalid
        ELSE map[CHOOSE i \in hits : \A k \in hits : k <= i][2]

\* Magnetic declination of the magnetic model near the airports, in whole degrees
MagVarDeg == 2

\* MagDecReader::getMagVar: the declination at a position; it is one degree more in
\* the east of the area
getMagVar(pos) == IF pos.lonx >= 20000 THEN MagVarDeg + 1 ELSE MagVarDeg

-----------------------------------------------------------------------------
(* DfdCompiler::writeAirports *)

AirportVal ==
    [num_runway_hard |-> 0, num_runway_soft |-> 0, num_runway_water |-> 0,
     longest_runway_length |-> 0, longest_runway_width |-> 0,
     longest_runway_heading |-> 0, num_runway_end_ils |-> 0, num_runways |-> 0]

\* The reference point of the airport and the first rectangle: the point inflated by
\* about 100 meter
AirportPos(airport) == Pos(airport.airport_ref_longitude, airport.airport_ref_latitude)

AirportRect(airport) ==
    RectInflate(RectOf(AirportPos(airport)), POS_EPSILON_100M, POS_EPSILON_100M)

\* The bound position and rectangle columns of an airport row
RectCols(rect) ==
    [left_lonx |-> rect.left, top_laty |-> rect.top, right_lonx |-> rect.right,
     bottom_laty |-> rect.bottom]

\* The record with the columns of a and of b, those of b where both have the column
Cols(a, b) ==
    [f \in (DOMAIN a) \cup (DOMAIN b) |-> IF f \in DOMAIN b THEN b[f] ELSE a[f]]

RECURSIVE WriteAirportsLoop(_, _, _)
\* The loop over the airport query; st is [tx, dfd]
WriteAirportsLoop(airports, i, st) ==
    IF i > Len(airports) THEN st
    ELSE LET ident == airports[i].airport_identifier
             id == st.dfd.curAirportId + 1
         IN  WriteAirportsLoop(airports, i + 1,
                 [tx |-> st.tx \cup
                      {Item("airport", "airport", id, <<ident>>, <<>>,
                            Cols(Cols(Cols(AirportVal, RectCols(AirportRect(airports[i]))),
                                      [mag_var |-> getMagVar(AirportPos(airports[i]))]),
                                 AirportPos(airports[i])))},
                  dfd |-> [st.dfd EXCEPT
                      !.curAirportId = id,
                      !.airportIndex = AddAirport(@, ident, id),
                      !.airportRectMap = Append(@, <<ident, AirportRect(airports[i])>>),
                      !.longestRunwaySurfaceMap =
                          Append(@, <<ident, airports[i].longest_runway_surface_code>>)]])

\* writeAirports: the maps are cleared, every source airport gets the next airport id
writeAirports(airports, st) ==
    WriteAirportsLoop(airports, 1,
        [st EXCEPT !.dfd.longestRunwaySurfaceMap = <<>>, !.dfd.airportRectMap = <<>>])

-----------------------------------------------------------------------------
(* DfdCompiler::writeRunwaysForAirport and writeRunways *)

\* The accumulators of the loop over the pairs
RunwayAccInit ==
    [numRunways |-> 0, numRunwayIls |-> 0, longestRunwayLength |-> 0,
     longestRunwayWidth |-> 0, longestRunwayHeading |-> 0]

\* Variant of ExtendByEnds that leaves the secondary end out
ExtendByPrimaryEnd(rect, primaryPos, secondaryPos) == RectExtend(rect, primaryPos)

\* The airport rectangle extended by the two end positions of a runway
ExtendByEnds(rect, primaryPos, secondaryPos) ==
    RectExtend(RectExtend(rect, primaryPos), secondaryPos)

\* One iteration of the loop over the pairs: two end ids, one runway id, three rows
WriteRunwayPair(pair, apt, st) ==
    LET primaryRec == pair[1]
        secondaryRec == pair[2]
        primaryEndId == st.dfd.curRunwayEndId + 1
        secondaryEndId == st.dfd.curRunwayEndId + 2
        runwayId == st.dfd.curRunwayId + 1
        length == primaryRec.runway_length
        width == primaryRec.runway_width
        lonX == (primaryRec.runway_longitude + secondaryRec.runway_longitude) \div 2
        latY == (primaryRec.runway_latitude + secondaryRec.runway_latitude) \div 2
        magvar == getMagVar(Pos(lonX, latY))
        heading == normalizeCourse(primaryRec.runway_magnetic_bearing + magvar)
        opposedHeading == normalizeCourse(secondaryRec.runway_magnetic_bearing + magvar)
        lengthMeter == feetToMeter(length)
        primaryPos == Endpoint(Pos(lonX, latY), lengthMeter \div 2, opposedHeading)
        secondaryPos == Endpoint(Pos(lonX, latY), lengthMeter \div 2, heading)
        pClosed == ValueBool(primaryRec, "is_closed", FALSE)
        sClosed == ValueBool(secondaryRec, "is_closed", FALSE)
        longer == length > st.acc.longestRunwayLength
        runwayRow ==
            Item("facility", "runway", runwayId, <<>>,
                 <<GetAirportId(st.dfd.airportIndex, apt), primaryEndId, secondaryEndId>>,
                 [length |-> length, width |-> width, heading |-> heading,
                  primary_lonx |-> primaryPos.lonx, primary_laty |-> primaryPos.laty,
                  secondary_lonx |-> secondaryPos.lonx, secondary_laty |-> secondaryPos.laty,
                  lonx |-> lonX, laty |-> latY])
        primaryRow ==
            Item("facility", "runway_end", primaryEndId, Mid(primaryRec.runway_identifier, 2),
                 <<>>,
                 [end_type |-> "P",
                  offset_threshold |-> primaryRec.displaced_threshold_distance,
                  is_takeoff |-> ~pClosed, is_landing |-> ~pClosed,
                  ils_ident |-> primaryRec.llz_identifier, heading |-> heading,
                  lonx |-> primaryPos.lonx, laty |-> primaryPos.laty])
        secondaryRow ==
            Item("facility", "runway_end", secondaryEndId, Mid(secondaryRec.runway_identifier, 2),
                 <<>>,
                 [end_type |-> "S",
                  offset_threshold |-> secondaryRec.displaced_threshold_distance,
                  is_takeoff |-> ~sClosed, is_landing |-> ~sClosed,
                  ils_ident |-> secondaryRec.llz_identifier, heading |-> opposedHeading,
                  lonx |-> secondaryPos.lonx, laty |-> secondaryPos.laty])
    IN  [tx |-> st.tx \cup {primaryRow, secondaryRow, runwayRow},
         dfd |-> [st.dfd EXCEPT !.curRunwayEndId = secondaryEndId, !.curRunwayId = runwayId],
         airportRect |-> ExtendByEnds(st.airportRect, primaryPos, secondaryPos),
         acc |-> [numRunways |-> st.acc.numRunways + 1,
                  numRunwayIls |-> IF primaryRec.llz_identifier = <<>>
                                   THEN st.acc.numRunwayIls + 1 ELSE st.acc.numRunwayIls,
                  longestRunwayLength |-> IF longer THEN length ELSE st.acc.longestRunwayLength,
                  longestRunwayWidth |-> IF longer THEN width ELSE st.acc.longestRunwayWidth,
                  longestRunwayHeading |-> IF longer THEN heading
                                           ELSE st.acc.longestRunwayHeading]]

RECURSIVE WriteRunwayPairs(_, _, _, _)
WriteRunwayPairs(pairs, i, apt, st) ==
    IF i > Len(pairs) THEN st
    ELSE WriteRunwayPairs(pairs, i + 1, apt, WriteRunwayPair(pairs[i], apt, st))

\* Variant of UpdateAirport that counts every runway as hard for a soft or water
\* surface as well
UpdateAirportAllHard(store, aptid, acc, surface, airportRect) ==
    LET numRunwayHard == IF surface \in {"H", "S", "W"} THEN acc.numRunways ELSE 0
        numRunwaySoft == IF surface = "S" THEN 1 ELSE 0
        numRunwayWater == IF surface = "W" THEN 1 ELSE 0
        newVal == [num_runway_hard |-> numRunwayHard, num_runway_soft |-> numRunwaySoft,
                   num_runway_water |-> numRunwayWater,
                   longest_runway_length |-> acc.longestRunwayLength,
                   longest_runway_width |-> acc.longestRunwayWidth,
                   longest_runway_heading |-> acc.longestRunwayHeading,
                   num_runway_end_ils |-> acc.numRunwayIls,
                   num_runways |-> acc.numRunways]
    IN  {IF r.tab = "airport" /\ r.id = aptid
         THEN [r EXCEPT !.val = Cols(@, Cols(newVal, RectCols(airportRect)))] ELSE r :
            r \in store}

\* The airport update at the end of writeRunwaysForAirport: the row with the airport id
\* of apt gets the counts; no row is changed when there is no such airport
UpdateAirport(store, aptid, acc, surface, airportRect) ==
    LET numRunwayHard == IF surface = "H" THEN acc.numRunways
                         ELSE IF surface \in {"S", "W"} THEN acc.numRunways - 1 ELSE 0
        numRunwaySoft == IF surface = "S" THEN 1 ELSE 0
        numRunwayWater == IF surface = "W" THEN 1 ELSE 0
        newVal == [num_runway_hard |-> numRunwayHard, num_runway_soft |-> numRunwaySoft,
                   num_runway_water |-> numRunwayWater,
                   longest_runway_length |-> acc.longestRunwayLength,
                   longest_runway_width |-> acc.longestRunwayWidth,
                   longest_runway_heading |-> acc.longestRunwayHeading,
                   num_runway_end_ils |-> acc.numRunwayIls,
                   num_runways |-> acc.numRunways]
    IN  {IF r.tab = "airport" /\ r.id = aptid
         THEN [r EXCEPT !.val = Cols(@, Cols(newVal, RectCols(airportRect)))] ELSE r :
            r \in store}

\* writeRunwaysForAirport(runways, apt); st is [tx, dfd]
writeRunwaysForAirport(rws, apt, st) ==
    LET written == WriteRunwayPairs(pairRunways(rws), 1, apt,
                                    [tx |-> st.tx, dfd |-> st.dfd, acc |-> RunwayAccInit,
                                     airportRect |-> RectValue(st.dfd.airportRectMap, apt)])
    IN  [tx |-> UpdateAirport(written.tx, GetAirportId(st.dfd.airportIndex, apt), written.acc,
                              SurfaceOf(st.dfd.longestRunwaySurfaceMap, apt),
                              written.airportRect),
         dfd |-> written.dfd]

RECURSIVE WriteRunwaysLoop(_, _, _, _, _)
\* The loop of writeRunways over the runway query, ordered by airport
WriteRunwaysLoop(rows, i, collected, lastApt, st) ==
    IF i > Len(rows) THEN writeRunwaysForAirport(collected, lastApt, st)
    ELSE LET apt == rows[i].airport_identifier
         IN  IF lastApt # "" /\ lastApt # apt
             THEN WriteRunwaysLoop(rows, i + 1, <<rows[i]>>, apt,
                                   writeRunwaysForAirport(collected, lastApt, st))
             ELSE WriteRunwaysLoop(rows, i + 1, Append(collected, rows[i]), apt, st)

writeRunways(rows, st) == WriteRunwaysLoop(rows, 1, <<>>, "", st)

-----------------------------------------------------------------------------
(* DfdCompiler::writeAirways *)

\* Variant of AirwayRow that goes on with the fragment and the sequence number after
\* an end of route
AirwayRowSameFragment(w, row) ==
    LET name == row.route_identifier
        code == row.waypoint_description_code
        notFirst == w.lastName # ""
        nameChange == notFirst /\ name # w.lastName
        newFragment == notFirst /\ ~nameChange /\ w.lastEndOfRoute
        fragmentNumber == w.fragmentNumber
        sequenceNumber == w.sequenceNumber
        emit == notFirst /\ ~w.lastEndOfRoute /\ ~nameChange
        awType == w.lastRec.flightlevel
        dir == w.lastRec.direction_restriction
        segment ==
            Item("nav", "airway", NextAutoId(w.tx, "airway"), <<w.lastRec.route_identifier>>,
                 <<w.lastRec.waypoint_id, row.waypoint_id>>,
                 [airway_type |-> IF awType = "H" THEN "J" ELSE IF awType = "L" THEN "V" ELSE "B",
                  airway_fragment_no |-> fragmentNumber,
                  sequence_no |-> sequenceNumber,
                  direction |-> IF dir = "" \/ dir = " " THEN "N" ELSE dir,
                  minimum_altitude |-> w.lastRec.minimum_altitude1,
                  maximum_altitude |-> w.lastRec.maximum_altitude])
    IN  [lastRec |-> row,
         lastName |-> name,
         lastEndOfRoute |-> Len(code) > 1 /\ code[2] = "E",
         sequenceNumber |-> IF nameChange THEN 1
                            ELSE IF emit THEN sequenceNumber + 1 ELSE sequenceNumber,
         fragmentNumber |-> IF nameChange THEN 1 ELSE fragmentNumber,
         tx |-> IF emit THEN w.tx \cup {segment} ELSE w.tx]

\* Variant of AirwayRow that emits a segment also from a row that ends the route
AirwayRowThroughEnd(w, row) ==
    LET name == row.route_identifier
        code == row.waypoint_description_code
        notFirst == w.lastName # ""
        nameChange == notFirst /\ name # w.lastName
        newFragment == notFirst /\ ~nameChange /\ w.lastEndOfRoute
        fragmentNumber == IF newFragment THEN w.fragmentNumber + 1 ELSE w.fragmentNumber
        sequenceNumber == IF newFragment THEN 1 ELSE w.sequenceNumber
        emit == notFirst /\ ~nameChange
        awType == w.lastRec.flightlevel
        dir == w.lastRec.direction_restriction
        segment ==
            Item("nav", "airway", NextAutoId(w.tx, "airway"), <<w.lastRec.route_identifier>>,
                 <<w.lastRec.waypoint_id, row.waypoint_id>>,
                 [airway_type |-> IF awType = "H" THEN "J" ELSE IF awType = "L" THEN "V" ELSE "B",
                  airway_fragment_no |-> fragmentNumber,
                  sequence_no |-> sequenceNumber,
                  direction |-> IF dir = "" \/ dir = " " THEN "N" ELSE dir,
                  minimum_altitude |-> w.lastRec.minimum_altitude1,
                  maximum_altitude |-> w.lastRec.maximum_altitude])
    IN  [lastRec |-> row,
         lastName |-> name,
         lastEndOfRoute |-> Len(code) > 1 /\ code[2] = "E",
         sequenceNumber |-> IF nameChange THEN 1
                            ELSE IF emit THEN sequenceNumber + 1 ELSE sequenceNumber,
         fragmentNumber |-> IF nameChange THEN 1 ELSE fragmentNumber,
         tx |-> IF emit THEN w.tx \cup {segment} ELSE w.tx]

\* Variant of AirwayRow that keeps the sequence number when a new fragment begins
AirwayRowKeepSequence(w, row) ==
    LET name == row.route_identifier
        code == row.waypoint_description_code
        notFirst == w.lastName # ""
        nameChange == notFirst /\ name # w.lastName
        newFragment == notFirst /\ ~nameChange /\ w.lastEndOfRoute
        fragmentNumber == IF newFragment THEN w.fragmentNumber + 1 ELSE w.fragmentNumber
        sequenceNumber == w.sequenceNumber
        emit == notFirst /\ ~w.lastEndOfRoute /\ ~nameChange
        awType == w.lastRec.flightlevel
        dir == w.lastRec.direction_restriction
        segment ==
            Item("nav", "airway", NextAutoId(w.tx, "airway"), <<w.lastRec.route_identifier>>,
                 <<w.lastRec.waypoint_id, row.waypoint_id>>,
                 [airway_type |-> IF awType = "H" THEN "J" ELSE IF awType = "L" THEN "V" ELSE "B",
                  airway_fragment_no |-> fragmentNumber,
                  sequence_no |-> sequenceNumber,
                  direction |-> IF dir = "" \/ dir = " " THEN "N" ELSE dir,
                  minimum_altitude |-> w.lastRec.minimum_altitude1,
                  maximum_altitude |-> w.lastRec.maximum_altitude])
    IN  [lastRec |-> row,
         lastName |-> name,
         lastEndOfRoute |-> Len(code) > 1 /\ code[2] = "E",
         sequenceNumber |-> IF nameChange THEN 1
                            ELSE IF emit THEN sequenceNumber + 1 ELSE sequenceNumber,
         fragmentNumber |-> IF nameChange THEN 1 ELSE fragmentNumber,
         tx |-> IF emit THEN w.tx \cup {segment} ELSE w.tx]

\* One iteration of the loop over the ordered airway rows; w holds the loop variables
\* lastRec, lastName, lastEndOfRoute, sequenceNumber, fragmentNumber and the store
AirwayRow(w, row) ==
    LET name == row.route_identifier
        code == row.waypoint_description_code
        notFirst == w.lastName # ""
        nameChange == notFirst /\ name # w.lastName
        newFragment == notFirst /\ ~nameChange /\ w.lastEndOfRoute
        fragmentNumber == IF newFragment THEN w.fragmentNumber + 1 ELSE w.fragmentNumber
        sequenceNumber == IF newFragment THEN 1 ELSE w.sequenceNumber
        emit == notFirst /\ ~w.lastEndOfRoute /\ ~nameChange
        awType == w.lastRec.flightlevel
        dir == w.lastRec.direction_restriction
        segment ==
            Item("nav", "airway", NextAutoId(w.tx, "airway"), <<w.lastRec.route_identifier>>,
                 <<w.lastRec.waypoint_id, row.waypoint_id>>,
                 [airway_type |-> IF awType = "H" THEN "J" ELSE IF awType = "L" THEN "V" ELSE "B",
                  airway_fragment_no |-> fragmentNumber,
                  sequence_no |-> sequenceNumber,
                  direction |-> IF dir = "" \/ dir = " " THEN "N" ELSE dir,
                  minimum_altitude |-> w.lastRec.minimum_altitude1,
                  maximum_altitude |-> w.lastRec.maximum_altitude])
    IN  [lastRec |-> row,
         lastName |-> name,
         lastEndOfRoute |-> Len(code) > 1 /\ code[2] = "E",
         sequenceNumber |-> IF nameChange THEN 1
                            ELSE IF emit THEN sequenceNumber + 1 ELSE sequenceNumber,
         fragmentNumber |-> IF nameChange THEN 1 ELSE fragmentNumber,
         tx |-> IF emit THEN w.tx \cup {segment} ELSE w.tx]

RECURSIVE WriteAirwaysLoop(_, _, _)
WriteAirwaysLoop(rows, i, w) ==
    IF i > Len(rows) THEN w ELSE WriteAirwaysLoop(rows, i + 1, AirwayRow(w, rows[i]))

\* writeAirways: the store after the loop over the rows; st is [tx, dfd]
writeAirways(rows, st) ==
    [st EXCEPT !.tx =
        WriteAirwaysLoop(rows, 1,
            [lastRec |-> [route_identifier |-> ""], lastName |-> "", lastEndOfRoute |-> TRUE,
             sequenceNumber |-> 1, fragmentNumber |-> 1, tx |-> st.tx]).tx]

-----------------------------------------------------------------------------
(* DfdCompiler::writeProcedure *)

\* A default constructed ProcedureInput, of the fields that the model follows
ProcedureInputInit ==
    [rowCode |-> "", airportIdent |-> "", airportId |-> 0, seqNr |-> 0,
     sidStarAppIdent |-> "", transIdent |-> "", pathTerm |-> <<>>,
     rteHoldTime |-> 0, rteHoldDist |-> 0]

\* The locals of writeProcedure in front of the loop; calls: the calls made to procWriter
ProcStateInit(rowCode) ==
    [num |-> 0, curAirport |-> "",
     procInput |-> [ProcedureInputInit EXCEPT !.rowCode = rowCode], calls |-> <<>>]

\* Variant of fillProcedureInput that does not set hold time and hold distance to 0
\* before it assigns one of them
fillProcedureInputKeepHold(procInput, row) ==
    LET filled == [procInput EXCEPT !.seqNr = row.seqno,
                                    !.sidStarAppIdent = row.procedure_identifier,
                                    !.transIdent = row.transition_identifier,
                                    !.pathTerm = row.path_termination]
    IN  IF startsWith(filled.pathTerm, <<"H">>)
        THEN [filled EXCEPT !.rteHoldTime = row.route_distance_holding_distance_time]
        ELSE [filled EXCEPT !.rteHoldDist = row.route_distance_holding_distance_time]

\* fillProcedureInput: the columns of the row; the dual-purpose column is a hold time
\* for a path termination that starts with H, else a distance
fillProcedureInput(procInput, row) ==
    LET filled == [procInput EXCEPT !.seqNr = row.seqno,
                                    !.sidStarAppIdent = row.procedure_identifier,
                                    !.transIdent = row.transition_identifier,
                                    !.pathTerm = row.path_termination,
                                    !.rteHoldTime = 0,
                                    !.rteHoldDist = 0]
    IN  IF startsWith(filled.pathTerm, <<"H">>)
        THEN [filled EXCEPT !.rteHoldTime = row.route_distance_holding_distance_time]
        ELSE [filled EXCEPT !.rteHoldDist = row.route_distance_holding_distance_time]

\* Variant of ProcedureFlush that flushes after the input has got the new airport
ProcedureFlushLate(p, airportIdent, index) ==
    IF p.curAirport # "" /\ airportIdent # p.curAirport
    THEN <<[op |-> "finish",
            input |-> [p.procInput EXCEPT !.airportIdent = airportIdent,
                                          !.airportId = GetAirportId(index, airportIdent)]],
           [op |-> "reset"]>>
    ELSE <<>>

\* The calls at a change of the airport: finish with the input of the row before, reset
ProcedureFlush(p, airportIdent, index) ==
    IF p.curAirport # "" /\ airportIdent # p.curAirport
    THEN <<[op |-> "finish", input |-> p.procInput], [op |-> "reset"]>>
    ELSE <<>>

\* The input built for a row: the airport identifier of the row, the id that the
\* airport index has for it (0 when it has none), and the columns of the row
ProcedureRowInput(p, row, index) ==
    fillProcedureInput(
        [p.procInput EXCEPT !.airportIdent = row.airport_identifier,
                            !.airportId = GetAirportId(index, row.airport_identifier)],
        row)

\* One iteration of the loop over the procedure query; p holds the locals
ProcedureRow(p, row, index) ==
    LET procInput == ProcedureRowInput(p, row, index)
    IN  [num |-> p.num + 1,
         curAirport |-> procInput.airportIdent,
         procInput |-> procInput,
         calls |-> p.calls \o ProcedureFlush(p, row.airport_identifier, index)
                       \o <<[op |-> "write", input |-> procInput]>>]

\* After the loop: finish and reset
ProcedureEnd(p) ==
    [p EXCEPT !.calls = @ \o <<[op |-> "finish", input |-> p.procInput], [op |-> "reset"]>>]

-----------------------------------------------------------------------------
(* DfdCompiler::updateMagvar and updateTacanChannel *)

\* A column without a value
Null == "(null)"

\* atools::fs::util::tacanChannelForFrequency: the channel of a frequency in units of
\* 10 kHz; 108.00 MHz is 17X, 112.30 MHz is 70X, the frequencies in between are Y
tacanChannelForFrequency(frequency) ==
    LET number == IF frequency < 11230 THEN (frequency - 10800) \div 10 + 17
                  ELSE (frequency - 11230) \div 10 + 70
    IN  <<number, IF frequency % 10 = 0 THEN "X" ELSE "Y">>

\* SqlUtil::updateColumnInTable: func is called for every row of the table; where it
\* returns true the row gets the values that func has bound
updateColumnInTable(rows, func(_)) ==
    [i \in DOMAIN rows |->
        LET to == func(rows[i])
        IN  IF to.update THEN Cols(rows[i], to.bound) ELSE rows[i]]

\* The function of updateMagvar: binds the declination at the position of the row
MagvarFunc(from) ==
    [update |-> TRUE, bound |-> [mag_var |-> getMagVar(Pos(from.lonx, from.laty))]]

\* Variant of updateMagvar that leaves table ndb out
updateMagvarWaypointOnly(nav) ==
    [nav EXCEPT !.waypoint = updateColumnInTable(@, MagvarFunc)]

\* updateMagvar: tables waypoint and ndb
updateMagvar(nav) ==
    [nav EXCEPT !.waypoint = updateColumnInTable(@, MagvarFunc),
                !.ndb = updateColumnInTable(@, MagvarFunc)]

\* Variant of TacanFunc that binds the channel for every type that begins with V
TacanFuncAnyV(from) ==
    IF from.type = <<"T", "C">> \/ startsWith(from.type, <<"V">>)
    THEN [update |-> TRUE,
          bound |-> [channel |-> tacanChannelForFrequency(from.frequency \div 10)]]
    ELSE [update |-> FALSE, bound |-> <<>>]

\* The function of updateTacanChannel: binds the channel for TACAN and VORTAC
TacanFunc(from) ==
    IF from.type = <<"T", "C">> \/ startsWith(from.type, <<"V", "T">>)
    THEN [update |-> TRUE,
          bound |-> [channel |-> tacanChannelForFrequency(from.frequency \div 10)]]
    ELSE [update |-> FALSE, bound |-> <<>>]

\* updateTacanChannel: table vor
updateTacanChannel(nav) == [nav EXCEPT !.vor = updateColumnInTable(@, TacanFunc)]

\* ILS_FEATHER_LEN_NM: the length of the feather in nautical miles
ILS_FEATHER_LEN_NM == 9

\* atools::geo::nmToMeter, in whole meters
nmToMeter(nm) == nm * 1852

\* Pos::endpoint(distance, heading) kept as the projection itself: the point at the
\* distance from pos on the course, which the heading gives up to full turns
EndpointPolar(pos, dist, heading) ==
    [origin |-> pos, dist |-> dist, course |-> normalizeCourse(heading)]

\* The angle between two courses, 0 to 180
AngleBetween(c1, c2) ==
    LET d == normalizeCourse(c1 - c2) IN IF d > 180 THEN 360 - d ELSE d

\* Pos::distanceMeterTo for two points projected from the same origin at the same
\* distance: the arc between them, in whole meters
distanceMeterTo(p1, p2) == (p1.dist * AngleBetween(p1.course, p2.course) * 3142) \div 180000

\* Variant of IlsGeometryFunc that projects along the localizer heading itself
IlsGeometryFuncForward(from) ==
    LET pos == Pos(from.lonx, from.laty)
        length == nmToMeter(ILS_FEATHER_LEN_NM)
        width == from.loc_width
        heading == from.loc_heading
        p1 == EndpointPolar(pos, length, heading - width \div 2)
        p2 == EndpointPolar(pos, length, heading + width \div 2)
        featherWidth == distanceMeterTo(p1, p2)
        pmid == EndpointPolar(pos, length - featherWidth \div 2, heading)
    IN  [update |-> TRUE, bound |-> [end1 |-> p1, end_mid |-> pmid, end2 |-> p2]]

\* The function of updateIlsGeometry: binds the two corners and the middle of the
\* feather; a point stands for its columns lonx and laty. Widths are even whole degrees
IlsGeometryFunc(from) ==
    LET pos == Pos(from.lonx, from.laty)
        length == nmToMeter(ILS_FEATHER_LEN_NM)
        width == from.loc_width
        heading == opposedCourseDeg(from.loc_heading)
        p1 == EndpointPolar(pos, length, heading - width \div 2)
        p2 == EndpointPolar(pos, length, heading + width \div 2)
        featherWidth == distanceMeterTo(p1, p2)
        pmid == EndpointPolar(pos, length - featherWidth \div 2, heading)
    IN  [update |-> TRUE, bound |-> [end1 |-> p1, end_mid |-> pmid, end2 |-> p2]]

\* updateIlsGeometry: table ils
updateIlsGeometry(nav) == [nav EXCEPT !.ils = updateColumnInTable(@, IlsGeometryFunc)]

\* No table written and no pass run
NavaidsInit ==
    [airport |-> {}, waypoint |-> <<>>, ndb |-> <<>>, vor |-> <<>>, ils |-> <<>>,
     loaded |-> [waypoint |-> <<>>, ndb |-> <<>>, vor |-> <<>>, ils |-> <<>>],
     passes |-> <<>>]

-----------------------------------------------------------------------------
(* Approach::Approach: the header of an approach record and the loop over its     *)
(* sub-records. The stream is described by what the reader finds in it: the      *)
(* sub-record headers, each at the declared end of the one before.               *)

\* Record::Record: a record begins with a 16 bit id and a 32 bit size
RecordHeaderSize == 6

\* The bytes that Approach::Approach reads after the record header and before the
\* sub-records: six bytes, two unsigned int and three float
ApproachHeaderSize == 6 * 1 + 2 * 4 + 3 * 4

\* The bytes that ApproachLeg::ApproachLeg reads
LegSize == 44

RECURSIVE BitAnd(_, _)
\* a & b for non-negative integers
BitAnd(a, b) ==
    IF a = 0 \/ b = 0 THEN 0
    ELSE (a % 2) * (b % 2) + 2 * BitAnd(a \div 2, b \div 2)

\* a >> n
ShiftRight(a, n) == a \div (2 ^ n)

\* Variant of ApproachFlags that takes the runway designator from four bits
ApproachFlagsWideDesignator(typeFlags) ==
    [type |-> BitAnd(typeFlags, 15),
     runwayDesignator |-> BitAnd(ShiftRight(typeFlags, 4), 15),
     gpsOverlay |-> BitAnd(typeFlags, 128) = 128]

\* The members decoded from the flags byte
ApproachFlags(typeFlags) ==
    [type |-> BitAnd(typeFlags, 15),
     runwayDesignator |-> BitAnd(ShiftRight(typeFlags, 4), 7),
     gpsOverlay |-> BitAnd(typeFlags, 128) = 128]

LegsTypes == {"LEGS", "LEGS_MSFS", "LEGS_MSFS_116", "LEGS_MSFS_118"}

MissedLegsTypes ==
    {"MISSED_LEGS", "MISSED_LEGS_MSFS", "MISSED_LEGS_MSFS_116", "MISSED_LEGS_MSFS_118"}

TransitionTypes == {"TRANSITION", "TRANSITION_MSFS", "TRANSITION_MSFS_116"}

Max(a, b) == IF a >= b THEN a ELSE b

\* The offset of the first sub-record of an approach record that starts at offset 0
SubRecordsStart(airportRecType) ==
    RecordHeaderSize + ApproachHeaderSize
        + (IF airportRecType = "MSFS_APPROACH_NEW" THEN 4 ELSE 0)

\* No record read
ApproachInit ==
    [pc |-> "none", in |-> <<>>, size |-> 0, offset |-> 0, maxRead |-> 0, next |-> 1,
     type |-> 0, runwayDesignator |-> 0, gpsOverlay |-> FALSE,
     legs |-> <<>>, missedLegs |-> <<>>, transitions |-> <<>>, done |-> {}]

\* Approach::Approach up to the loop: the record header and the members in front of the
\* sub-records; in is the record in the stream
ApproachHeader(in) ==
    LET flags == ApproachFlags(in.typeFlags)
    IN  [ApproachInit EXCEPT
            !.pc = "subrecords", !.in = in, !.size = in.size,
            !.offset = SubRecordsStart(in.airportRecType),
            !.maxRead = SubRecordsStart(in.airportRecType),
            !.type = flags.type, !.runwayDesignator = flags.runwayDesignator,
            !.gpsOverlay = flags.gpsOverlay]

\* Record::checkSubRecord: the sub-record is not valid when it ends behind the frame of
\* the record it is in
checkSubRecord(a, r) == a.offset + r.size > a.size

\* The legs of a sub-record as they are appended: the data of the sub-record and the
\* number of the leg
LegsOf(r) == [i \in 1..r.num |-> <<r.data, i>>]

\* Variant of DispatchSubRecord that returns from the constructor at an unknown type
DispatchUnknownFatal(a, r) ==
    IF r.type \in LegsTypes \cup MissedLegsTypes \cup TransitionTypes
    THEN IF r.type \in TransitionTypes
         THEN [a EXCEPT !.transitions = Append(@, r.data),
                        !.maxRead = Max(@, a.offset + Max(r.size, RecordHeaderSize))]
         ELSE IF ~a.in.includeLegs THEN a
         ELSE IF r.type \in LegsTypes
         THEN [a EXCEPT !.legs = @ \o LegsOf(r),
                        !.maxRead = Max(@, a.offset + RecordHeaderSize + 2 + r.num * LegSize)]
         ELSE [a EXCEPT !.missedLegs = @ \o LegsOf(r),
                        !.maxRead = Max(@, a.offset + RecordHeaderSize + 2 + r.num * LegSize)]
    ELSE [a EXCEPT !.pc = "returned"]

\* The switch over the type of the sub-record r at a.offset: the legs are read by their
\* number, a transition reads its own record from its start, any other type is logged
DispatchSubRecord(a, r) ==
    IF r.type \in TransitionTypes
    THEN [a EXCEPT !.transitions = Append(@, r.data),
                   !.maxRead = Max(@, a.offset + Max(r.size, RecordHeaderSize))]
    ELSE IF r.type \in LegsTypes /\ a.in.includeLegs
    THEN [a EXCEPT !.legs = @ \o LegsOf(r),
                   !.maxRead = Max(@, a.offset + RecordHeaderSize + 2 + r.num * LegSize)]
    ELSE IF r.type \in MissedLegsTypes /\ a.in.includeLegs
    THEN [a EXCEPT !.missedLegs = @ \o LegsOf(r),
                   !.maxRead = Max(@, a.offset + RecordHeaderSize + 2 + r.num * LegSize)]
    ELSE a

\* One pass of the loop, with sub-record header r found at the offset: the header is
\* read, an invalid sub-record ends the constructor, a valid one is dispatched and the
\* stream is set to its end
SubRecord(a, r) ==
    LET read == [a EXCEPT !.maxRead = Max(@, a.offset + RecordHeaderSize)]
    IN  IF checkSubRecord(read, r)
        THEN [read EXCEPT !.pc = "returned", !.offset = a.offset + RecordHeaderSize,
                          !.done = @ \cup {[start |-> a.offset, r |-> r,
                                            rejected |-> TRUE,
                                            offset |-> a.offset + RecordHeaderSize]}]
        ELSE LET d == DispatchSubRecord(read, r)
             IN  IF d.pc = "returned" THEN d
                 ELSE [d EXCEPT !.offset = a.offset + r.size,
                                !.next = IF r.size = 0 THEN @ ELSE @ + 1,
                                !.done = @ \cup {[start |-> a.offset, r |-> r,
                                                  rejected |-> FALSE,
                                                  offset |-> a.offset + r.size]}]

PassInit == navaids = NavaidsInit /\ approach = ApproachInit

-----------------------------------------------------------------------------
(* MetarIndex: the METAR reports by station identifier and by position *)

\* No read() or getMetar() so far
NoRead ==
    [merge |-> FALSE, stream |-> <<>>, found |-> -1, repeated |-> FALSE, before |-> {}]

NoResult ==
    [station |-> "", pos |-> Pos(0, 0),
     result |-> [requestIdent |-> "", requestPos |-> Pos(0, 0), metar |-> <<>>,
                 timestamp |-> 0]]

\* A position that is not valid
InvalidPos == [valid |-> FALSE, lonx |-> 0, laty |-> 0]

\* The callback set with setFetchAirportCoords: the coordinates of the airports of the
\* simulator database; KZZZ is not one of them
FetchAirportCoords(ident) ==
    IF ident = "KAAA" THEN [valid |-> TRUE, lonx |-> 0, laty |-> 0]
    ELSE IF ident = "KBBB" THEN [valid |-> TRUE, lonx |-> 10, laty |-> 10]
    ELSE InvalidPos

\* Variant of clear that empties the identifier map only
clearMapOnly(ix) == [map |-> <<>>, list |-> ix.list]

\* MetarIndex::clear: both lists are emptied
clear(ix) == [map |-> <<>>, list |-> <<>>]

\* The index as read() starts with it
ReadStart(ix, merge) == IF merge THEN ix ELSE clear(ix)

\* The index after construction
MetarInit ==
    /\ identIndexMap = <<>>
    /\ spatialIndex = <<>>
    /\ latestSeen = <<>>
    /\ lastRead = NoRead
    /\ metarResult = NoResult

\* Variant of updateOrInsert in which the record that arrives last replaces the entry
updateOrInsertLastWins(ix, metar, ident, lastTimestamp) ==
    IF ident \in DOMAIN ix.map
    THEN [ix EXCEPT !.list[ix.map[ident] + 1].metar = metar,
                    !.list[ix.map[ident] + 1].timestamp = lastTimestamp]
    ELSE [map |-> [i \in (DOMAIN ix.map) \cup {ident} |->
                      IF i = ident THEN Len(ix.list) ELSE ix.map[i]],
          list |-> Append(ix.list, [ident |-> ident, metar |-> metar,
                                    timestamp |-> lastTimestamp, pos |-> InvalidPos])]

\* MetarIndex::updateOrInsert: a station that is in the index keeps the report with the
\* later timestamp, a new station is appended and registered with its position
updateOrInsert(ix, metar, ident, lastTimestamp) ==
    IF ident \in DOMAIN ix.map
    THEN IF ix.list[ix.map[ident] + 1].timestamp < lastTimestamp
         THEN [ix EXCEPT !.list[ix.map[ident] + 1].metar = metar,
                         !.list[ix.map[ident] + 1].timestamp = lastTimestamp]
         ELSE ix
    ELSE [map |-> [i \in (DOMAIN ix.map) \cup {ident} |->
                      IF i = ident THEN Len(ix.list) ELSE ix.map[i]],
          list |-> Append(ix.list, [ident |-> ident, metar |-> metar,
                                    timestamp |-> lastTimestamp, pos |-> InvalidPos])]

\* MetarIndex::updateIndex: every entry gets the coordinates that the callback has for
\* its station; an entry without valid coordinates is not considered by the index
updateIndex(ix) ==
    [ix EXCEPT !.list = [i \in DOMAIN ix.list |->
                            [ix.list[i] EXCEPT !.pos = FetchAirportCoords(ix.list[i].ident)]]]

RECURSIVE ReadLoop(_, _, _)
\* The loop of read() over the records of the stream
ReadLoop(ix, stream, i) ==
    IF i > Len(stream) THEN ix
    ELSE ReadLoop(updateOrInsert(ix, stream[i].metar, stream[i].ident, stream[i].timestamp),
                  stream, i + 1)

\* Variant of read that merges whatever the merge flag says
readAlwaysMerge(ix, stream, merge) == updateIndex(ReadLoop(ix, stream, 1))

\* MetarIndex::read: clear unless merging, all records of the stream, then the positions
read(ix, stream, merge) == updateIndex(ReadLoop(ReadStart(ix, merge), stream, 1))

\* MetarIndex::metarData: the entries of the station, none when it is not in the index
metarData(ix, ident) ==
    IF ident \in DOMAIN ix.map THEN {ix.list[ix.map[ident] + 1]} ELSE {}

\* The square of the distance between two positions
DistanceSq(a, b) ==
    (a.lonx - b.lonx) * (a.lonx - b.lonx) + (a.laty - b.laty) * (a.laty - b.laty)

\* Variant of Nearest that considers the entries without valid coordinates too, where
\* they sit (0/0)
NearestOfAll(ix, pos) ==
    {ix.list[i] : i \in {j \in DOMAIN ix.list :
        \A k \in DOMAIN ix.list :
            DistanceSq(ix.list[j].pos, pos) <= DistanceSq(ix.list[k].pos, pos)}}

\* SpatialIndex::getNearest: the entries with valid coordinates that no other such entry
\* is nearer to the position than
Nearest(ix, pos) ==
    LET indexed == {i \in DOMAIN ix.list : ix.list[i].pos.valid}
    IN  {ix.list[i] : i \in {j \in indexed :
            \A k \in indexed :
                DistanceSq(ix.list[j].pos, pos) <= DistanceSq(ix.list[k].pos, pos)}}

\* The result for a request that is answered with the report of entry e
MetarResultOf(station, pos, e) ==
    [requestIdent |-> station, requestPos |-> pos, metar |-> e.metar,
     timestamp |-> e.timestamp]

\* The result without a report
MetarResultEmpty(station, pos) ==
    [requestIdent |-> station, requestPos |-> pos, metar |-> <<>>, timestamp |-> 0]

\* Variant of getMetar whose result carries the station and position of the entry
getMetarOfEntry(ix, station, pos) ==
    IF metarData(ix, station) # {}
    THEN {MetarResultOf(e.ident, e.pos, e) : e \in metarData(ix, station)}
    ELSE IF Nearest(ix, pos) # {}
         THEN {MetarResultOf(e.ident, Pos(e.pos.lonx, e.pos.laty), e) : e \in Nearest(ix, pos)}
         ELSE {MetarResultEmpty(station, pos)}

\* MetarIndex::getMetar: the results that the request can get: the report of the
\* station, else the report of a nearest station, else none; always with the station
\* and position of the request
getMetar(ix, station, pos) ==
    IF metarData(ix, station) # {}
    THEN {MetarResultOf(station, pos, e) : e \in metarData(ix, station)}
    ELSE IF Nearest(ix, pos) # {}
         THEN {MetarResultOf(station, pos, e) : e \in Nearest(ix, pos)}
         ELSE {MetarResultEmpty(station, pos)}

-----------------------------------------------------------------------------
(* The source database of the relational flow *)

\* A row of tbl_runways; bearings are ten times the runway number
SrcRunway(apt, ident, llz, length, lonx, laty) ==
    [airport_identifier |-> apt, runway_identifier |-> ident,
     runway_longitude |-> lonx, runway_latitude |-> laty,
     runway_true_bearing |-> normalizeCourse(10 * ToInt(MidN(ident, 2, 2))),
     runway_magnetic_bearing |-> normalizeCourse(10 * ToInt(MidN(ident, 2, 2)) + 360 - MagVarDeg),
     displaced_threshold_distance |-> 100, llz_identifier |-> llz,
     runway_length |-> length, runway_width |-> 150, landing_threshold_elevation |-> 10]

\* A row of tbl_airways joined with the waypoint table
SrcAirway(name, code, wp, level, dir) ==
    [route_identifier |-> name, waypoint_description_code |-> code, waypoint_id |-> wp,
     flightlevel |-> level, direction_restriction |-> dir,
     minimum_altitude1 |-> 1000 * wp, maximum_altitude |-> 40000 + 1000 * wp]

SrcAirports ==
    <<[airport_identifier |-> "AAAA", longest_runway_surface_code |-> "H",
       airport_ref_longitude |-> 0, airport_ref_latitude |-> 0],
      [airport_identifier |-> "BBBB", longest_runway_surface_code |-> "S",
       airport_ref_longitude |-> 9000, airport_ref_latitude |-> -7000]>>

SrcRunways ==
    <<SrcRunway("AAAA", <<"R", "W", "0", "9">>, <<"I", "A">>, 8000, -1200, 300),
      SrcRunway("AAAA", <<"R", "W", "2", "7">>, <<>>, 8000, 1200, 300),
      SrcRunway("BBBB", <<"R", "W", "1", "8", "L">>, <<>>, 3000, 9200, -6500)>>

SrcAirways ==
    <<SrcAirway("N1", <<"E", " ">>, 1, "H", ""),
      SrcAirway("N1", <<"E", " ">>, 2, "H", "F"),
      SrcAirway("N1", <<"E", "E">>, 3, "L", " "),
      SrcAirway("N2", <<"E", " ">>, 4, "B", "B"),
      SrcAirway("N2", <<"E", "E">>, 5, "B", "")>>

-----------------------------------------------------------------------------
(* Inputs of NavDatabase *)

Sims == {"NAVIGRAPH", "XPLANE_11", "XPLANE_12", "MSFS", "FSX"}

\* FsPaths::isAnyXplane
isAnyXplane(t) == t \in {"XPLANE_11", "XPLANE_12"}

AllTypes ==
    {"AIRPORT", "RUNWAY", "PARKING", "WAYPOINT", "VOR", "NDB", "MARKER", "ILS",
     "BOUNDARY", "AIRWAY", "APPROACH"}

\* The sets of included object types the model draws the options from
IncludeChoices == {AllTypes, AllTypes \ {"AIRWAY", "APPROACH"}}

\* options->isIncludedNavDbObject
isIncluded(t) == t \in opts.included

\* options->getBasicValidationTables(): table and minimum number of rows
BasicValidationTables == <<<<"airport", 1>>, <<"airway", 1>>>>

Options ==
    [deduplicate : BOOLEAN, resolveAirways : BOOLEAN, createRouteTables : BOOLEAN,
     basicValidation : BOOLEAN, databaseReport : BOOLEAN, dropIndexes : BOOLEAN,
     vacuumDatabase : BOOLEAN, analyzeDatabase : BOOLEAN, included : IncludeChoices]

\* Everything switched on and every object type included
DefaultOptions ==
    [deduplicate |-> TRUE, resolveAirways |-> TRUE, createRouteTables |-> TRUE,
     basicValidation |-> TRUE, databaseReport |-> TRUE, dropIndexes |-> TRUE,
     vacuumDatabase |-> TRUE, analyzeDatabase |-> TRUE, included |-> AllTypes]

\* The options a run is started with: at most MaxOptionsOff settings away from
\* DefaultOptions
StartOptions ==
    {o \in Options :
        Cardinality({f \in DOMAIN o : o[f] # DefaultOptions[f]}) <= MaxOptionsOff}

-----------------------------------------------------------------------------
(* The statements of create(): createInternal() with the functions it calls, in   *)
(* program order for the given source type and options.                          *)
(*   fn:     the function the statement belongs to                               *)
(*   msg:    message of the progress report the statement starts with ("": none) *)
(*   inc:    progress steps of that report                                       *)
(*   chk:    "checked": the report's result is assigned to `aborted` and         *)
(*           returned on; "ignored": the result is dropped; "none": no report    *)
(*   ret:    where an abort returns to: "run": out of createInternal,            *)
(*           "fn": out of fn only, the caller goes on                            *)
(*   effs:   the operations on the store that follow the report                  *)
(*   commit: the statement ends with a commit                                    *)

Stmt(fn, msg, inc, chk, ret, effs, commit) ==
    [fn |-> fn, msg |-> msg, inc |-> inc, chk |-> chk, ret |-> ret, effs |-> effs,
     commit |-> commit]

\* A call without progress report
Call(fn, effs, commit) == Stmt(fn, "", 0, "none", "run", effs, commit)

\* progress->reportOther(msg) with the result dropped, then the work
Ignored(fn, msg, effs, commit) == Stmt(fn, msg, 1, "ignored", "run", effs, commit)

\* if((aborted = progress->reportOther(msg))) return; then the work
Checked(fn, msg, inc, effs, commit) == Stmt(fn, msg, inc, "checked", "run", effs, commit)

\* NavDatabase::runScript: report, return on abort, execute the script, commit
runScript(fn, scriptFile, message) ==
    Stmt(fn, message, PROGRESS_NUM_SCRIPT_STEPS, "checked", "run", <<scriptFile>>, TRUE)

When(cond, stmts) == IF cond THEN stmts ELSE <<>>

\* The counting of the progress steps at the start of createInternal
CountBody ==
    IF isAnyXplane(sim)
    THEN <<Checked("countXplaneSteps", "Counting files", 0, <<>>, FALSE)>>
    ELSE IF sim = "NAVIGRAPH" THEN <<>>
    ELSE [i \in 1..NumAreas |-> Checked("countFiles", "Counting files for area", 0, <<>>, FALSE)]

\* Variant of createSchemaInternalBody that does not remove the navigation aids
createSchemaInternalBodyKeepNav ==
    LET f == "createSchemaInternal"
    IN  <<Checked(f, "Removing Views", 1, <<"drop_view.sql">>, FALSE),
          Checked(f, "Removing Routing and Search", 1, <<"drop_routing_search.sql">>, FALSE),
          Checked(f, "Removing Navigation Aids", 1, <<>>, FALSE),
          Checked(f, "Removing Airport Facilites", 1, <<"drop_airport_facilities.sql">>, FALSE),
          Checked(f, "Removing Approaches", 1, <<"drop_approach.sql">>, FALSE),
          Checked(f, "Removing Airports", 1, <<"drop_airport.sql">>, FALSE),
          Checked(f, "Removing Metadata", 1, <<"drop_meta.sql">>, TRUE),
          Checked(f, "Creating Database Schema", 1,
                  <<"create_boundary_schema.sql", "create_nav_schema.sql",
                    "create_ap_schema.sql", "create_route_schema.sql",
                    "create_meta_schema.sql", "create_views.sql">>, TRUE)>>

createSchemaInternalBody ==
    LET f == "createSchemaInternal"
    IN  <<Checked(f, "Removing Views", 1, <<"drop_view.sql">>, FALSE),
          Checked(f, "Removing Routing and Search", 1, <<"drop_routing_search.sql">>, FALSE),
          Checked(f, "Removing Navigation Aids", 1, <<"drop_nav.sql">>, FALSE),
          Checked(f, "Removing Airport Facilites", 1, <<"drop_airport_facilities.sql">>, FALSE),
          Checked(f, "Removing Approaches", 1, <<"drop_approach.sql">>, FALSE),
          Checked(f, "Removing Airports", 1, <<"drop_airport.sql">>, FALSE),
          Checked(f, "Removing Metadata", 1, <<"drop_meta.sql">>, TRUE),
          Checked(f, "Creating Database Schema", 1,
                  <<"create_boundary_schema.sql", "create_nav_schema.sql",
                    "create_ap_schema.sql", "create_route_schema.sql",
                    "create_meta_schema.sql", "create_views.sql">>, TRUE)>>

\* loadDfd up to the COM frequencies: metadata, attach, and the writers of the
\* included object types
loadDfdWriteBody ==
    LET f == "loadDfd"
    IN  <<Ignored(f, "Navigraph", <<"writeFileAndSceneryMetadata">>, TRUE),
          Call(f, <<"attachDatabase", "initQueries", "compileMagDeclBgl">>, TRUE),
          Call(f, <<"readHeader">>, FALSE),
          Ignored(f, "Writing MORA", <<"writeMora">>, FALSE)>>
     \o When(isIncluded("AIRPORT"),
          <<Ignored(f, "Writing airports", <<"writeAirports">>, TRUE)>>
          \o When(isIncluded("RUNWAY"),
               <<Ignored(f, "Writing runways", <<"writeRunways">>, TRUE)>>)
          \o When(isIncluded("PARKING"),
               <<Ignored(f, "Writing parking", <<"writeParking">>, FALSE)>>))
     \o When(opts.included \cap {"WAYPOINT", "VOR", "NDB", "MARKER", "ILS"} # {},
          <<Ignored(f, "Writing navaids", <<"writeNavaids">>, TRUE),
            Call(f, <<"writePathpoints">>, FALSE)>>)
     \o When(isIncluded("BOUNDARY"),
          <<Ignored(f, "Writing Airspaces", <<"writeAirspaces">>, FALSE),
            Ignored(f, "Writing Airspaces COM", <<"writeAirspaceCom">>, FALSE)>>)
     \o <<Ignored(f, "Writing COM Frequencies", <<"writeCom">>, FALSE)>>

\* Variant of loadDfdDedupBody with the option test inverted
loadDfdDedupBodyInverted ==
    LET f == "loadDfd"
    IN  <<runScript(f, "fs/db/create_indexes_post_load.sql", "Creating indexes"),
          runScript(f, "fs/db/create_indexes_post_load_boundary.sql", "Creating boundary indexes")>>
     \o When(~opts.deduplicate,
          <<runScript(f, "fs/db/delete_duplicates.sql", "Clean up")>>)

\* loadDfd: the post-load indexes and the removal of duplicates
loadDfdDedupBody ==
    LET f == "loadDfd"
    IN  <<runScript(f, "fs/db/create_indexes_post_load.sql", "Creating indexes"),
          runScript(f, "fs/db/create_indexes_post_load_boundary.sql", "Creating boundary indexes")>>
     \o When(opts.deduplicate,
          <<runScript(f, "fs/db/delete_duplicates.sql", "Clean up")>>)

\* Variant of loadDfdAirwayBody that creates the waypoints for the procedures first
loadDfdAirwayBodyPopulateFirst ==
    LET f == "loadDfd"
    IN  <<runScript(f, "fs/db/dfd/populate_navaids_proc.sql", "Creating waypoints for procedures")>>
     \o When(isIncluded("AIRWAY"),
          <<Ignored(f, "Writing airways", <<"writeAirways">>, TRUE)>>)

\* loadDfd: the airways and the waypoints for the procedures
loadDfdAirwayBody ==
    LET f == "loadDfd"
    IN  When(isIncluded("AIRWAY"),
          <<Ignored(f, "Writing airways", <<"writeAirways">>, TRUE)>>)
     \o <<runScript(f, "fs/db/dfd/populate_navaids_proc.sql", "Creating waypoints for procedures")>>

\* loadDfd: the updates of the navaids and the procedures
loadDfdProcedureBody ==
    LET f == "loadDfd"
    IN  <<Ignored(f, "Updating magnetic declination", <<"updateMagvar">>, TRUE),
          Ignored(f, "Updating VORTAC and TACAN channels", <<"updateTacanChannel">>, TRUE),
          Ignored(f, "Updating ILS geometry", <<"updateIlsGeometry">>, TRUE)>>
     \o When(isIncluded("APPROACH"),
          <<Ignored(f, "Writing approaches and transitions", <<"writeProcedure APPCH">>, FALSE),
            Ignored(f, "Writing SIDs", <<"writeProcedure SID">>, FALSE),
            Ignored(f, "Writing STARs", <<"writeProcedure STAR">>, FALSE)>>)
     \o <<Call(f, <<>>, TRUE)>>

\* loadDfd: the indexes again, the airport ids of the navaids, MSA and airport idents
loadDfdFinishBody ==
    LET f == "loadDfd"
    IN  <<runScript(f, "fs/db/create_indexes_post_load.sql", "Creating indexes"),
          runScript(f, "fs/db/create_indexes_post_load_boundary.sql", "Creating boundary indexes"),
          runScript(f, "fs/db/dfd/update_navaids.sql", "Updating Navids in Waypoint"),
          Ignored(f, "Writing airport MSA", <<"writeAirportMsa">>, FALSE),
          Ignored(f, "Updating airport idents", <<"updateTreeLetterAirportCodes">>, TRUE),
          Call(f, <<"deInitQueries">>, FALSE)>>

loadDfdBody ==
    loadDfdWriteBody \o loadDfdDedupBody \o loadDfdAirwayBody \o loadDfdProcedureBody
        \o loadDfdFinishBody

\* A compile step of XpDataCompiler: it reports progress and returns true on abort
XpCompile(name) == Checked("loadXplane", name, 1, <<name>>, FALSE)

loadXplaneBody ==
    LET f == "loadXplane"
    IN  <<Checked(f, "X-Plane", 1, <<>>, FALSE),
          XpCompile("writeBasepathScenery"),
          XpCompile("compileMagDeclBgl")>>
     \o When(isIncluded("AIRPORT"),
          <<XpCompile("compileCustomApt")>>
          \o When(sim = "XPLANE_11",
               <<XpCompile("compileCustomGlobalApt"), XpCompile("compileDefaultApt")>>)
          \o <<XpCompile("compileEarthMora")>>)
     \o When(sim = "XPLANE_12", <<XpCompile("compileGlobalApt12")>>)
     \o When(isIncluded("ILS"), <<XpCompile("compileLocalizers")>>)
     \o When(isIncluded("WAYPOINT"),
          <<XpCompile("compileEarthFix"), XpCompile("compileUserFix")>>)
     \o When(opts.included \cap {"VOR", "NDB", "MARKER", "ILS"} # {},
          <<XpCompile("compileEarthNav"), XpCompile("compileUserNav")>>)
     \o <<runScript(f, "fs/db/create_indexes_post_load.sql", "Creating indexes"),
          runScript(f, "fs/db/create_indexes_post_load_boundary.sql", "Creating boundary indexes")>>
     \o When(isIncluded("BOUNDARY"), <<XpCompile("compileAirspaces")>>)
     \o When(opts.deduplicate,
          <<runScript(f, "fs/db/delete_duplicates.sql", "Clean up")>>)
     \o When(isIncluded("AIRWAY"),
          <<XpCompile("compileEarthAirway"),
            runScript(f, "fs/db/xplane/prepare_airway.sql", "Preparing Airways"),
            XpCompile("postProcessEarthAirway")>>)
     \o When(isIncluded("AIRPORT"), <<XpCompile("compileEarthAirportMsa")>>)
     \o <<Call(f, <<>>, TRUE),
          XpCompile("compileEarthHolding"),
          Call(f, <<>>, TRUE)>>
     \o When(isIncluded("APPROACH"), <<XpCompile("compileCifp")>>)
     \o <<Call(f, <<>>, TRUE)>>

\* loadFsxP3dMsfsSimulator: the loop over the scenery areas; its result is dropped by
\* loadFsxP3d and loadMsfs, which go on with loadFsxP3dMsfsPost
loadFsxP3dMsfsSimulatorBody ==
    LET f == "loadFsxP3dMsfsSimulator"
        area(i) ==
            <<Stmt(f, "Scenery area", 1, "checked", "fn", <<>>, FALSE),
              Stmt(f, "", FilesPerArea, "none", "run", <<"writeSceneryArea">>, FALSE),
              Stmt(f, "isAborted", 0, "checked", "fn", <<>>, FALSE)>>
        loop[i \in 0..NumAreas] == IF i = 0 THEN <<>> ELSE loop[i - 1] \o area(i)
    IN  <<Call(f, <<"readMagDeclBgl">>, FALSE)>> \o loop[NumAreas] \o <<Call(f, <<>>, TRUE)>>

\* Variant of loadFsxP3dMsfsPostBody that removes the duplicates before the indexes exist
loadFsxP3dMsfsPostBodyDedupFirst ==
    LET f == "loadFsxP3dMsfsPost"
    IN  When(opts.deduplicate,
          <<runScript(f, "fs/db/delete_duplicates.sql", "Clean up")>>)
     \o <<runScript(f, "fs/db/create_indexes_post_load.sql", "Creating indexes"),
          runScript(f, "fs/db/create_indexes_post_load_boundary.sql", "Creating boundary indexes")>>

loadFsxP3dMsfsPostBody ==
    LET f == "loadFsxP3dMsfsPost"
    IN  <<runScript(f, "fs/db/create_indexes_post_load.sql", "Creating indexes"),
          runScript(f, "fs/db/create_indexes_post_load_boundary.sql", "Creating boundary indexes")>>
     \o When(opts.deduplicate,
          <<runScript(f, "fs/db/delete_duplicates.sql", "Clean up")>>)

LoadBody ==
    IF sim = "NAVIGRAPH" THEN loadDfdBody
    ELSE IF isAnyXplane(sim) THEN loadXplaneBody
    ELSE loadFsxP3dMsfsSimulatorBody \o loadFsxP3dMsfsPostBody

\* createInternal after the load: the airway resolver and the cross-reference scripts
XrefBody ==
    LET f == "createInternal"
        ms == ~isAnyXplane(sim) /\ sim # "NAVIGRAPH"
    IN  When(opts.resolveAirways /\ sim # "NAVIGRAPH",
          <<Call(f, <<"AirwayResolver::assignWaypointIds">>, FALSE),
            Checked(f, "Creating airways", PROGRESS_NUM_RESOLVE_AIRWAY_STEPS,
                    <<"AirwayResolver::run">>, FALSE)>>)
     \o When(ms /\ sim # "MSFS",
          <<runScript(f, "fs/db/update_vor.sql", "Merging VOR and TACAN to VORTAC")>>)
     \o <<runScript(f, "fs/db/update_wp_ids.sql", "Updating waypoints")>>
     \o When(ms, <<runScript(f, "fs/db/update_nav_ids.sql", "Updating Navaids")>>)
     \o When(sim = "NAVIGRAPH",
          <<runScript(f, "fs/db/dfd/clean_waypoints.sql", "Cleaning up waypoints")>>)
     \o <<runScript(f, "fs/db/update_approaches.sql", "Updating approaches"),
          runScript(f, "fs/db/update_airport.sql", "Updating Airports")>>
     \o (IF sim = "NAVIGRAPH"
         THEN <<runScript(f, "fs/db/dfd/update_airport_ils.sql", "Updating ILS")>>
         ELSE When(~isAnyXplane(sim),
                <<runScript(f, "fs/db/update_airport_ils.sql", "Updating ILS")>>))
     \o <<runScript(f, "fs/db/update_num_ils.sql", "Updating ILS Count"),
          runScript(f, "fs/db/populate_nav_search.sql", "Collecting navaids for search")>>
     \o When(opts.createRouteTables,
          <<runScript(f, "fs/db/populate_route_node.sql", "Populating routing tables"),
            Checked(f, "Creating route edges for VOR and NDB", 1, <<"RouteEdgeWriter::run">>, FALSE),
            runScript(f, "fs/db/populate_route_edge.sql", "Creating route edges waypoints")>>)

\* Variant of FinishBody that updates the ILS count after the airport indexes
FinishBodyLateUpdate ==
    LET f == "createInternal"
        ms == ~isAnyXplane(sim) /\ sim # "NAVIGRAPH"
    IN  <<runScript(f, "fs/db/finish_airport_schema.sql", "Creating indexes for airport"),
          runScript(f, "fs/db/update_num_ils.sql", "Updating ILS Count")>>
     \o When(ms, <<runScript(f, "fs/db/update_sea_base.sql", "Clean up runways")>>)
     \o <<runScript(f, "fs/db/finish_schema.sql", "Creating indexes for search")>>
     \o When(opts.createRouteTables,
          <<runScript(f, "fs/db/finish_schema_route.sql", "Creating indexes for route")>>)

\* createInternal: the final index scripts
FinishBody ==
    LET f == "createInternal"
        ms == ~isAnyXplane(sim) /\ sim # "NAVIGRAPH"
    IN  <<runScript(f, "fs/db/finish_airport_schema.sql", "Creating indexes for airport")>>
     \o When(ms, <<runScript(f, "fs/db/update_sea_base.sql", "Clean up runways")>>)
     \o <<runScript(f, "fs/db/finish_schema.sql", "Creating indexes for search")>>
     \o When(opts.createRouteTables,
          <<runScript(f, "fs/db/finish_schema_route.sql", "Creating indexes for route")>>)

\* createInternal: translations, metadata, detach
MetaBody ==
    LET f == "createInternal"
    IN  When(sim = "MSFS",
          <<Checked(f, "Loading translations", 1, <<"LanguageJson::readFromDirToDb">>, FALSE)>>)
     \o <<Call(f, <<"DatabaseMeta::updateAll">>, TRUE)>>
     \o When(sim = "NAVIGRAPH", <<Call(f, <<"detachDatabase">>, FALSE)>>)

PostBody == XrefBody \o FinishBody \o MetaBody

\* createInternal after the metadata update: options, statistics and reports
TailBody ==
    LET f == "createInternal"
        report(msg, effs) == Stmt("createDatabaseReport", msg, 1, "checked", "fn", effs, FALSE)
    IN  When(opts.dropIndexes,
          <<Checked(f, "Creating Database preparation Script", 1,
                    <<"createPreparationScript">>, TRUE)>>)
     \o When(opts.basicValidation,
          <<Stmt("basicValidation", "Basic Validation", 1, "checked", "fn",
                 <<"basicValidateTable">>, FALSE)>>)
     \o When(opts.databaseReport,
          <<report("Creating table statistics", <<"printTableStats">>),
            report("Creating report on values", <<"createColumnReport">>),
            report("Creating report on duplicates", <<"reportDuplicates">>),
            report("Creating report on coordinate duplicates", <<"reportCoordinateViolations">>)>>)
     \o When(opts.dropIndexes,
          <<Checked(f, "Dropping All Indexes", 1, <<"dropAllIndexes">>, TRUE)>>)
     \o When(opts.vacuumDatabase,
          <<Checked(f, "Vacuum Database", PROGRESS_NUM_TASK_STEPS, <<"vacuum">>, FALSE)>>)
     \o When(opts.analyzeDatabase,
          <<Checked(f, "Analyze Database", PROGRESS_NUM_TASK_STEPS, <<"analyze">>, FALSE)>>)
     \o <<Call(f, <<"reportFinish">>, FALSE)>>

\* All statements of createInternal in program order
Body == CountBody \o createSchemaInternalBody \o LoadBody \o PostBody \o TailBody

-----------------------------------------------------------------------------
(* The total number of progress steps createInternal announces before the run *)

\* XpDataCompiler::calculateReportCount: the reports of the compile steps of
\* loadXplane, taken to be exact; the scenery report and the airway post
\* processing are counted by countXplaneSteps itself
calculateReportCount ==
    Len(SelectSeq(loadXplaneBody,
                  LAMBDA s : s.inc = 1 /\ s.msg \notin {"X-Plane", "postProcessEarthAirway"}))

\* NavDatabase::countXplaneSteps
countXplaneSteps ==
    PROGRESS_NUM_SCHEMA_STEPS
    + 1
    + calculateReportCount
    + PROGRESS_NUM_TASK_STEPS
    + PROGRESS_NUM_TASK_STEPS
    + (IF opts.deduplicate THEN PROGRESS_NUM_TASK_STEPS ELSE 0)
    + PROGRESS_NUM_TASK_STEPS
    + 1
    + (IF opts.resolveAirways THEN PROGRESS_NUM_RESOLVE_AIRWAY_STEPS ELSE 0)
    + 7 * PROGRESS_NUM_TASK_STEPS
    + (IF opts.vacuumDatabase THEN PROGRESS_NUM_TASK_STEPS ELSE 0)
    + (IF opts.analyzeDatabase THEN PROGRESS_NUM_TASK_STEPS ELSE 0)

\* NavDatabase::countDfdSteps
countDfdSteps ==
    PROGRESS_NUM_SCHEMA_STEPS
    + 11
    + PROGRESS_NUM_TASK_STEPS
    + PROGRESS_NUM_TASK_STEPS
    + (IF opts.deduplicate THEN PROGRESS_NUM_TASK_STEPS ELSE 0)
    + 1
    + PROGRESS_NUM_TASK_STEPS
    + 6
    + 3 * PROGRESS_NUM_TASK_STEPS
    + 1
    + 7 * PROGRESS_NUM_TASK_STEPS
    + (IF opts.createRouteTables THEN 1 + 2 * PROGRESS_NUM_TASK_STEPS ELSE 0)
    + PROGRESS_NUM_TASK_STEPS
    + PROGRESS_NUM_TASK_STEPS
    + 1
    + (IF opts.databaseReport THEN PROGRESS_NUM_TASK_STEPS ELSE 0)
    + (IF opts.dropIndexes THEN 2 ELSE 0)
    + (IF opts.vacuumDatabase THEN PROGRESS_NUM_TASK_STEPS ELSE 0)
    + (IF opts.analyzeDatabase THEN PROGRESS_NUM_TASK_STEPS ELSE 0)
    + 4

\* NavDatabase::countMsSimSteps
countMsSimSteps ==
    PROGRESS_NUM_TASK_STEPS
    + PROGRESS_NUM_TASK_STEPS
    + (IF opts.deduplicate THEN PROGRESS_NUM_TASK_STEPS ELSE 0)
    + (IF opts.resolveAirways THEN PROGRESS_NUM_RESOLVE_AIRWAY_STEPS ELSE 0)
    + 11 * PROGRESS_NUM_TASK_STEPS
    + (IF opts.vacuumDatabase THEN PROGRESS_NUM_TASK_STEPS ELSE 0)
    + (IF opts.analyzeDatabase THEN PROGRESS_NUM_TASK_STEPS ELSE 0)

\* NavDatabase::countFiles: the files of all scenery areas, and the areas that
\* hold a file
countFiles ==
    [numProgressReports |-> NumAreas * FilesPerArea,
     numSceneryAreas |-> IF FilesPerArea > 0 THEN NumAreas ELSE 0]

\* NavDatabase::countFsxP3dSteps
countFsxP3dSteps ==
    countFiles.numProgressReports + countFiles.numSceneryAreas
    + PROGRESS_NUM_SCHEMA_STEPS + countMsSimSteps

\* NavDatabase::countMsfsSteps
countMsfsSteps ==
    countFiles.numProgressReports + countFiles.numSceneryAreas
    + PROGRESS_NUM_SCHEMA_STEPS + 1 + countMsSimSteps - 1

\* createInternal: the total handed to progress.setTotal
ProgressTotal ==
    IF isAnyXplane(sim) THEN countXplaneSteps
    ELSE IF sim = "NAVIGRAPH" THEN countDfdSteps
    ELSE IF sim = "MSFS" THEN countMsfsSteps
    ELSE countFsxP3dSteps

-----------------------------------------------------------------------------
(* What the operations do to the store *)

DropScripts ==
    {"drop_view.sql", "drop_routing_search.sql", "drop_nav.sql",
     "drop_airport_facilities.sql", "drop_approach.sql", "drop_airport.sql", "drop_meta.sql"}

\* The schema group a drop script removes (tables, their rows and their indexes)
DropGroup(script) ==
    CASE script = "drop_view.sql" -> "view"
      [] script = "drop_routing_search.sql" -> "route"
      [] script = "drop_nav.sql" -> "nav"
      [] script = "drop_airport_facilities.sql" -> "facility"
      [] script = "drop_approach.sql" -> "approach"
      [] script = "drop_airport.sql" -> "airport"
      [] script = "drop_meta.sql" -> "meta"

\* Operations that do not change the content of the output store
NoStoreEffects ==
    {"attachDatabase", "detachDatabase", "initQueries", "deInitQueries", "readHeader",
     "basicValidateTable", "printTableStats", "createColumnReport", "reportDuplicates",
     "reportCoordinateViolations", "vacuum", "analyze", "reportFinish"}

SchemaScripts ==
    {"create_boundary_schema.sql", "create_nav_schema.sql", "create_ap_schema.sql",
     "create_route_schema.sql", "create_meta_schema.sql", "create_views.sql"}

IndexScripts ==
    {"fs/db/create_indexes_post_load.sql", "fs/db/create_indexes_post_load_boundary.sql",
     "fs/db/finish_airport_schema.sql", "fs/db/finish_schema.sql",
     "fs/db/finish_schema_route.sql"}

\* The kind of an operation: "schema", "index", "rows" (inserts, updates or deletes
\* rows of output tables), "maint" (vacuum, analyze), "none"
EffClass(e) ==
    IF e \in DropScripts \cup SchemaScripts THEN "schema"
    ELSE IF e \in IndexScripts \cup {"dropAllIndexes"} THEN "index"
    ELSE IF e \in {"vacuum", "analyze"} THEN "maint"
    ELSE IF e \in NoStoreEffects THEN "none"
    ELSE "rows"

\* The schema group of the table an operation writes to
EffGroup(e) ==
    CASE e \in {"writeFileAndSceneryMetadata", "compileMagDeclBgl", "readMagDeclBgl",
                "writeBasepathScenery", "DatabaseMeta::updateAll",
                "LanguageJson::readFromDirToDb", "createPreparationScript",
                "create_meta_schema.sql"} -> "meta"
      [] e \in {"writeAirports", "fs/db/update_airport.sql", "fs/db/update_num_ils.sql",
                "updateTreeLetterAirportCodes", "compileCustomApt", "compileCustomGlobalApt",
                "compileDefaultApt", "compileGlobalApt12", "writeSceneryArea",
                "fs/db/finish_airport_schema.sql"} -> "airport"
      [] e \in {"writeRunways", "writeParking", "writeCom", "writeAirportMsa",
                "compileEarthAirportMsa", "fs/db/update_sea_base.sql",
                "create_ap_schema.sql"} -> "facility"
      [] e \in {"writeProcedure APPCH", "writeProcedure SID", "writeProcedure STAR",
                "compileCifp", "fs/db/update_approaches.sql"} -> "approach"
      [] e \in {"fs/db/populate_nav_search.sql", "fs/db/populate_route_node.sql",
                "RouteEdgeWriter::run", "fs/db/populate_route_edge.sql",
                "create_route_schema.sql", "fs/db/finish_schema.sql",
                "fs/db/finish_schema_route.sql"} -> "route"
      [] e = "create_views.sql" -> "view"
      [] OTHER -> "nav"

\* The table an operation writes to, for the operations after the final indexes
EffTable(e) ==
    CASE e = "DatabaseMeta::updateAll" -> "metadata"
      [] e = "LanguageJson::readFromDirToDb" -> "translation"
      [] e = "createPreparationScript" -> "script"
      [] e = "fs/db/update_sea_base.sql" -> "runway"
      [] e \in SchemaScripts -> "_schema"
      [] e \in IndexScripts -> "_index"
      [] OTHER -> "_change"

\* The foreign key columns an operation assigns, as <<table, column>>
FkCols(e) ==
    CASE e = "writeRunways" ->
            {<<"runway", "airport_id">>, <<"runway", "primary_end_id">>,
             <<"runway", "secondary_end_id">>}
      [] e = "writeAirways" ->
            {<<"airway", "from_waypoint_id">>, <<"airway", "to_waypoint_id">>}
      [] e \in {"writeProcedure APPCH", "writeProcedure SID", "writeProcedure STAR"} ->
            {<<"approach", "airport_id">>}
      [] e = "fs/db/dfd/update_navaids.sql" ->
            {<<"waypoint", "airport_id">>, <<"vor", "airport_id">>, <<"ndb", "airport_id">>}
      [] e = "fs/db/update_wp_ids.sql" -> {<<"waypoint", "nav_id">>}
      [] e = "fs/db/update_nav_ids.sql" ->
            {<<"waypoint", "airport_id">>, <<"ndb", "airport_id">>}
      [] e = "fs/db/update_approaches.sql" -> {<<"approach", "runway_end_id">>}
      [] e \in {"fs/db/update_airport_ils.sql", "fs/db/dfd/update_airport_ils.sql"} ->
            {<<"ils", "loc_runway_end_id">>}
      [] e = "AirwayResolver::assignWaypointIds" -> {<<"tmp_airway_point", "waypoint_id">>}
      [] OTHER -> {}

\* One operation on the store; st is [tx, dfd]
Apply(e, st) ==
    CASE e \in DropScripts ->
            [st EXCEPT !.tx = {r \in st.tx : r.grp # DropGroup(e)}]
      [] e = "dropAllIndexes" ->
            [st EXCEPT !.tx = {r \in st.tx : r.tab # "_index"}]
      [] e = "writeAirports" -> writeAirports(SrcAirports, st)
      [] e = "writeRunways" -> writeRunways(SrcRunways, st)
      [] e = "writeAirways" -> writeAirways(SrcAirways, st)
      [] e \in NoStoreEffects -> st
      [] OTHER ->
            [st EXCEPT !.tx = @ \cup
                {Item(EffGroup(e), IF EffClass(e) = "rows" THEN "_change" ELSE EffTable(e),
                      0, <<e>>, <<>>, [table |-> EffTable(e)])}]

RECURSIVE ApplyAll(_, _, _)
ApplyAll(effs, i, st) ==
    IF i > Len(effs) THEN st ELSE ApplyAll(effs, i + 1, Apply(effs[i], st))

\* basicValidateTable for every table of the options: a table with fewer rows than its
\* minimum sets foundBasicValidationError
foundBasicValidationError(store) ==
    \E i \in 1..Len(BasicValidationTables) :
        Cardinality(Rows(store, BasicValidationTables[i][1])) < BasicValidationTables[i][2]

-----------------------------------------------------------------------------
(* Actions *)

End(body) == Len(body) + 1

\* The statement the caller goes on with when the function of statement i returns
AfterFn(body, i) ==
    LET later == {j \in (i + 1)..Len(body) : body[j].fn # body[i].fn}
    IN  IF later = {} THEN End(body) ELSE CHOOSE j \in later : \A k \in later : j <= k

\* The function statement i belongs to; "create" after the last statement
FnAt(body, i) == IF i > Len(body) THEN "create" ELSE body[i].fn

Range(seq) == {seq[i] : i \in 1..Len(seq)}

\* One statement of createInternal: the progress report with the reply of the
\* callback, then either the return on abort or the work and the commit
ExecStmt(body, s, reply) ==
    LET abort == reply /\ s.chk = "checked"
        after == ApplyAll(s.effs, 1, [tx |-> tx, dfd |-> dfd])
        next == IF abort THEN (IF s.ret = "run" THEN End(body) ELSE AfterFn(body, pc))
                ELSE pc + 1
    IN  /\ requested' = (requested \/ reply)
        /\ progressCur' = progressCur + s.inc
        /\ aborted' = IF s.chk = "checked" THEN reply ELSE aborted
        /\ tx' = IF abort THEN tx ELSE after.tx
        /\ dfd' = IF abort THEN dfd ELSE after.dfd
        /\ db' = IF ~abort /\ s.commit THEN after.tx ELSE db
        /\ log' = IF abort THEN log ELSE log \o s.effs
        /\ attached' = IF abort THEN attached
                       ELSE IF "detachDatabase" \in Range(s.effs) THEN FALSE
                       ELSE IF "attachDatabase" \in Range(s.effs) THEN TRUE
                       ELSE attached
        /\ result' = IF ~abort /\ "basicValidateTable" \in Range(s.effs)
                        /\ foundBasicValidationError(tx)
                     THEN result \cup {"COMPILE_BASIC_VALIDATION_ERROR"} ELSE result
        /\ pc' = next
        /\ curFn' = FnAt(body, next)
        /\ UNCHANGED <<sim, opts, run, dbStart, rolledBack, unitVars, metarVars,
                       passVars>>

Replies(s) == IF s.chk = "none" THEN {FALSE} ELSE BOOLEAN

\* The next statement of createInternal or of the function it is in
Step ==
    LET body == Body
    IN  \E reply \in Replies(body[pc]) : ExecStmt(body, body[pc], reply)

CountXplaneSteps ==
    /\ curFn = "countXplaneSteps"
    /\ Step

CountFiles ==
    /\ curFn = "countFiles"
    /\ Step

CreateSchemaInternal ==
    /\ curFn = "createSchemaInternal"
    /\ Step

LoadDfd ==
    /\ curFn = "loadDfd"
    /\ Step

LoadXplane ==
    /\ curFn = "loadXplane"
    /\ Step

LoadFsxP3dMsfsSimulator ==
    /\ curFn = "loadFsxP3dMsfsSimulator"
    /\ Step

LoadFsxP3dMsfsPost ==
    /\ curFn = "loadFsxP3dMsfsPost"
    /\ Step

CreateInternal ==
    /\ curFn = "createInternal"
    /\ Step

BasicValidation ==
    /\ curFn = "basicValidation"
    /\ Step

CreateDatabaseReport ==
    /\ curFn = "createDatabaseReport"
    /\ Step

\* create() after createInternal has returned
Create ==
    /\ curFn = "create"
    /\ curFn' = "done"
    /\ result' = IF aborted THEN result \cup {"COMPILE_ABORTED"} ELSE result
    /\ tx' = IF aborted THEN db ELSE tx
    /\ rolledBack' = aborted
    /\ UNCHANGED <<sim, opts, pc, aborted, requested, db, log, dfd, attached, progressCur,
                   run, dbStart, unitVars, metarVars, passVars>>

\* A second compile with the same options against the store the first one has left
Rerun ==
    /\ curFn = "done"
    /\ run = 1
    /\ ~aborted
    /\ ~requested
    /\ run' = 2
    /\ pc' = 1
    /\ curFn' = FnAt(Body, 1)
    /\ requested' = FALSE
    /\ result' = {}
    /\ log' = <<>>
    /\ dfd' = DfdCompilerInit
    /\ attached' = FALSE
    /\ progressCur' = 0
    /\ dbStart' = db
    /\ rolledBack' = FALSE
    /\ UNCHANGED <<sim, opts, aborted, db, tx, unitVars, metarVars, passVars>>

Init ==
    /\ sim \in Sims
    /\ opts \in StartOptions
    /\ pc = 1
    /\ curFn = FnAt(Body, 1)
    /\ aborted = FALSE
    /\ requested = FALSE
    /\ result = {}
    /\ db = {}
    /\ tx = {}
    /\ log = <<>>
    /\ dfd = DfdCompilerInit
    /\ attached = FALSE
    /\ progressCur = 0
    /\ run = 1
    /\ dbStart = {}
    /\ rolledBack = FALSE
    /\ runways = <<>>
    /\ runwaypairs = <<>>
    /\ airways = <<>>
    /\ procedures = <<>>
    /\ procState = ProcStateInit("")
    /\ MetarInit
    /\ PassInit

Next ==
    \/ CountXplaneSteps
    \/ CountFiles
    \/ CreateSchemaInternal
    \/ LoadDfd
    \/ LoadXplane
    \/ LoadFsxP3dMsfsSimulator
    \/ LoadFsxP3dMsfsPost
    \/ CreateInternal
    \/ BasicValidation
    \/ CreateDatabaseReport
    \/ Create

Spec == Init /\ [][Next]_vars

\* The first compile, and a second one after a first that ran in full
SpecRerun == Init /\ [][Next \/ Rerun]_vars

-----------------------------------------------------------------------------
(* The runways of one airport: writeRunwaysForAirport on the runway ends that the *)
(* runway query of the source database delivers for it                           *)

\* The runway numbers and side letters the identifiers of the source are made of
RunwayNums == {0, 18, 36}

RunwayDesigs == {<<>>, <<"L">>, <<"R">>, <<"C">>}

\* The runway identifier of the source database, e.g. RW18L
RunwayIdent(n, d) ==
    <<"R", "W">> \o (IF n < 10 THEN <<"0">> ELSE <<>>) \o NumberStr(n) \o d

RunwayIdents == {RunwayIdent(n, d) : n \in RunwayNums, d \in RunwayDesigs}

\* The place of a runway identifier in the order of the runway query: by number, then
\* no side letter before C, L and R
IdentRank(ident) ==
    LET d == Mid(ident, 4)
    IN  10 * ToInt(MidN(ident, 2, 2))
            + (IF d = <<>> THEN 0 ELSE IF d = <<"C">> THEN 1 ELSE IF d = <<"L">> THEN 2 ELSE 3)

\* The runway ends of airport AAAA: up to MaxEnds rows with pairwise distinct identifiers
\* in the order of the runway query (order by runway_identifier); every other end has a
\* localizer; the thresholds of the ends numbered 18 lie north of the airport reference
\* point, the others south of it, on parallel runways 400 meter apart
RunwayInputs ==
    {[i \in 1..Len(ids) |->
        SrcRunway("AAAA", ids[i], IF i % 2 = 1 THEN <<"I", "A">> ELSE <<>>, 8000,
                  400 * i - 800, IF ToInt(MidN(ids[i], 2, 2)) = 18 THEN 1200 ELSE -1200)] :
        ids \in {q \in UNION {[1..n -> RunwayIdents] : n \in 0..MaxEnds} :
                    \A i, j \in 1..Len(q) : i < j => IdentRank(q[i]) < IdentRank(q[j])}}

\* The longest runway surface codes of airport AAAA: hard, soft, water and one that is
\* none of them
RunwaySurfaces == {"H", "S", "W", "G"}

\* The airports of the source with the surface code of airport AAAA
RunwayAirports(surface) ==
    [SrcAirports EXCEPT ![1].longest_runway_surface_code = surface]

\* writeRunways on the rows of airport AAAA: writeRunwaysForAirport(runways, "AAAA")
\* with the pairs it gets from pairRunways; without rows the call is made with an
\* empty airport identifier
WriteRunwaysForAirport ==
    /\ curFn = "writeRunwaysForAirport"
    /\ LET st == writeRunways(runways, [tx |-> tx, dfd |-> dfd])
       IN  /\ tx' = st.tx
           /\ dfd' = st.dfd
    /\ runwaypairs' = pairRunways(runways)
    /\ log' = Append(log, "writeRunwaysForAirport")
    /\ curFn' = "done"
    /\ UNCHANGED <<runVars, runways, airways, procedures, procState, metarVars,
                   passVars>>

\* The relational flow after writeAirports, in front of the runways of airport AAAA
InitRunways ==
    /\ sim = "NAVIGRAPH"
    /\ opts = DefaultOptions
    /\ pc = 1
    /\ curFn = "writeRunwaysForAirport"
    /\ aborted = FALSE
    /\ requested = FALSE
    /\ result = {}
    /\ db = {}
    /\ \E surface \in RunwaySurfaces :
          LET st == writeAirports(RunwayAirports(surface),
                                  [tx |-> {}, dfd |-> DfdCompilerInit])
          IN  /\ tx = st.tx
              /\ dfd = st.dfd
    /\ log = <<"writeAirports">>
    /\ attached = TRUE
    /\ progressCur = 0
    /\ run = 1
    /\ dbStart = {}
    /\ rolledBack = FALSE
    /\ runways \in RunwayInputs
    /\ runwaypairs = <<>>
    /\ airways = <<>>
    /\ procedures = <<>>
    /\ procState = ProcStateInit("")
    /\ MetarInit
    /\ PassInit

NextRunways == WriteRunwaysForAirport

SpecRunways == InitRunways /\ [][NextRunways]_vars

-----------------------------------------------------------------------------
(* The airways: writeAirways on the rows that the airway query delivers, ordered by *)
(* route identifier and sequence number                                              *)

\* The route identifiers of the source, in the order of the query
AirwayNames == <<"N1", "N2", "N3">>

\* Waypoint description codes: not the end of a route, end of route, one character only
AirwayCodes == {<<"E", " ">>, <<"E", "E">>, <<"E">>}

\* Flight level and direction restriction of the rows: the values of the source
\* format and a direction that is none of them
AirwayAttrs == <<<<"H", "">>, <<"L", " ">>, <<"B", "F">>, <<"", "B">>, <<"H", "X">>>>

\* The attributes of row i when the first row has those behind number shift
AirwayAttr(i, shift) == AirwayAttrs[((i - 1 + shift) % Len(AirwayAttrs)) + 1]

\* Route identifier and description code of up to MaxAirwayRows rows, ordered by
\* route identifier as the airway query orders them
AirwayShapes ==
    {r \in UNION {[1..n -> (DOMAIN AirwayNames) \X AirwayCodes] : n \in 0..MaxAirwayRows} :
        \A i \in 1..(Len(r) - 1) : r[i][1] <= r[i + 1][1]}

\* The rows of the airway query: row i is joined with the waypoint with id i and has
\* altitudes of its own; flight level and direction go through AirwayAttrs from row
\* to row
AirwayInputs ==
    {[i \in 1..Len(p[1]) |-> SrcAirway(AirwayNames[p[1][i][1]], p[1][i][2], i,
                                        AirwayAttr(i, p[2])[1], AirwayAttr(i, p[2])[2])] :
        p \in AirwayShapes \X {0, 1}}

\* writeAirways() on the rows of the query
WriteAirways ==
    /\ curFn = "writeAirways"
    /\ tx' = writeAirways(airways, [tx |-> tx, dfd |-> dfd]).tx
    /\ db' = tx'
    /\ log' = Append(log, "writeAirways")
    /\ curFn' = "done"
    /\ UNCHANGED <<sim, opts, pc, aborted, requested, result, attached, progressCur, run,
                   dbStart, rolledBack, dfd, unitVars, metarVars, passVars>>

\* The relational flow in front of writeAirways
InitAirways ==
    /\ sim = "NAVIGRAPH"
    /\ opts = DefaultOptions
    /\ pc = 1
    /\ curFn = "writeAirways"
    /\ aborted = FALSE
    /\ requested = FALSE
    /\ result = {}
    /\ db = {}
    /\ tx = {}
    /\ dfd = DfdCompilerInit
    /\ log = <<>>
    /\ attached = TRUE
    /\ progressCur = 0
    /\ run = 1
    /\ dbStart = {}
    /\ rolledBack = FALSE
    /\ runways = <<>>
    /\ runwaypairs = <<>>
    /\ airways \in AirwayInputs
    /\ procedures = <<>>
    /\ procState = ProcStateInit("")
    /\ MetarInit
    /\ PassInit

NextAirways == WriteAirways

SpecAirways == InitAirways /\ [][NextAirways]_vars

-----------------------------------------------------------------------------
(* The procedures: writeProcedure on the rows that a procedure query delivers, ordered *)
(* by airport identifier, procedure identifier, route type, transition and seqno      *)

\* The row codes of the three calls of writeProcedures
RowCodes == {"APPCH", "SID", "STAR"}

\* The airport identifiers of the airport table, in the order of the query
AirportIdents == [i \in 1..Len(SrcAirports) |-> SrcAirports[i].airport_identifier]

ProcedureIdents == <<"P1", "P2">>

\* The rows of a procedure query: up to MaxProcRows rows of procedures of the airports
\* of the source, ordered by airport and procedure identifier
PathTerminations == <<<<"H", "M">>, <<"T", "F">>>>

\* The rows of the procedure query; the dual-purpose column has a value of its own in
\* every row
ProcedureInputs ==
    {[i \in 1..Len(q) |->
        [airport_identifier |-> AirportIdents[q[i][1]],
         procedure_identifier |-> ProcedureIdents[q[i][2]],
         transition_identifier |-> "", seqno |-> 10 * i,
         path_termination |-> PathTerminations[q[i][3]],
         route_distance_holding_distance_time |-> 2 + i]] :
        q \in {r \in UNION {[1..n -> (DOMAIN AirportIdents) \X (DOMAIN ProcedureIdents)
                                          \X (DOMAIN PathTerminations)] :
                                n \in 0..MaxProcRows} :
                  \A i, j \in 1..Len(r) :
                      i < j => \/ r[i][1] < r[j][1]
                               \/ r[i][1] = r[j][1] /\ r[i][2] <= r[j][2]}}

\* The options of a run that writes procedures: all object types, or all but the
\* airports and what belongs to them
ProcedureOptions ==
    {DefaultOptions,
     [DefaultOptions EXCEPT !.included = AllTypes \ {"AIRPORT", "RUNWAY", "PARKING"}]}

\* The next row of the query: flush at a change of the airport, then write
WriteProcedureRow ==
    /\ curFn = "writeProcedure"
    /\ procState.num < Len(procedures)
    /\ procState' = ProcedureRow(procState, procedures[procState.num + 1], dfd.airportIndex)
    /\ UNCHANGED <<runVars, curFn, tx, log, dfd, runways, runwaypairs, airways, procedures,
                   metarVars, passVars>>

\* The query has no further row: finish and reset, writeProcedure returns
WriteProcedureEnd ==
    /\ curFn = "writeProcedure"
    /\ procState.num = Len(procedures)
    /\ procState' = ProcedureEnd(procState)
    /\ log' = Append(log, "writeProcedure")
    /\ curFn' = "done"
    /\ UNCHANGED <<runVars, tx, dfd, runways, runwaypairs, airways, procedures, metarVars,
                   passVars>>

\* The relational flow in front of a call of writeProcedure: the airports have been
\* written when the options include them
InitProcedures ==
    /\ sim = "NAVIGRAPH"
    /\ opts \in ProcedureOptions
    /\ pc = 1
    /\ curFn = "writeProcedure"
    /\ aborted = FALSE
    /\ requested = FALSE
    /\ result = {}
    /\ LET st == IF "AIRPORT" \in opts.included
                 THEN writeAirports(SrcAirports, [tx |-> {}, dfd |-> DfdCompilerInit])
                 ELSE [tx |-> {}, dfd |-> DfdCompilerInit]
       IN  /\ tx = st.tx
           /\ db = st.tx
           /\ dfd = st.dfd
    /\ log = IF "AIRPORT" \in opts.included THEN <<"writeAirports">> ELSE <<>>
    /\ attached = TRUE
    /\ progressCur = 0
    /\ run = 1
    /\ dbStart = {}
    /\ rolledBack = FALSE
    /\ runways = <<>>
    /\ runwaypairs = <<>>
    /\ airways = <<>>
    /\ procedures \in ProcedureInputs
    /\ \E rowCode \in RowCodes : procState = ProcStateInit(rowCode)
    /\ MetarInit
    /\ PassInit

NextProcedures ==
    \/ WriteProcedureRow
    \/ WriteProcedureEnd

SpecProcedures == InitProcedures /\ [][NextProcedures]_vars

-----------------------------------------------------------------------------
(* The load phases of the relational flow one after the other, on source tables  *)
(* that are empty or not                                                         *)

\* The source tables of the runs: no row, one row, or the rows of the example source
LoadRunways == {r \in RunwayInputs : Len(r) <= 1} \cup {SrcRunways}

LoadAirways == {<<>>, SrcAirways}

LoadProcedures == {q \in ProcedureInputs : Len(q) <= 1}

\* ProcedureWriter: the procedure records flushed by the calls, one for every finish
\* that has legs written since the reset before it
RECURSIVE ProcWriterRecords(_, _)
ProcWriterRecords(calls, legs) ==
    IF calls = <<>> THEN 0
    ELSE LET c == Head(calls)
         IN  IF c.op = "write" THEN ProcWriterRecords(Tail(calls), legs + 1)
             ELSE IF c.op = "reset" THEN ProcWriterRecords(Tail(calls), 0)
             ELSE (IF legs > 0 THEN 1 ELSE 0) + ProcWriterRecords(Tail(calls), legs)

\* writeAirports of loadDfd on an empty airport table or on the airports of the source
LoadWriteAirports ==
    /\ curFn = "loadAirports"
    /\ \E src \in {<<>>, SrcAirports} :
          LET st == writeAirports(src, [tx |-> tx, dfd |-> dfd])
          IN  /\ tx' = st.tx
              /\ dfd' = st.dfd
    /\ db' = tx'
    /\ log' = Append(log, "writeAirports")
    /\ curFn' = "loadRunways"
    /\ UNCHANGED <<sim, opts, pc, aborted, requested, result, attached, progressCur, run,
                   dbStart, rolledBack, unitVars, metarVars, passVars>>

\* writeRunways of loadDfd
LoadWriteRunways ==
    /\ curFn = "loadRunways"
    /\ LET st == writeRunways(runways, [tx |-> tx, dfd |-> dfd])
       IN  /\ tx' = st.tx
           /\ dfd' = st.dfd
    /\ db' = tx'
    /\ log' = Append(log, "writeRunways")
    /\ curFn' = "loadAirways"
    /\ UNCHANGED <<sim, opts, pc, aborted, requested, result, attached, progressCur, run,
                   dbStart, rolledBack, unitVars, metarVars, passVars>>

\* writeAirways of loadDfd; writeProcedure follows
LoadWriteAirways ==
    /\ curFn = "loadAirways"
    /\ tx' = writeAirways(airways, [tx |-> tx, dfd |-> dfd]).tx
    /\ db' = tx'
    /\ log' = Append(log, "writeAirways")
    /\ curFn' = "writeProcedure"
    /\ UNCHANGED <<sim, opts, pc, aborted, requested, result, attached, progressCur, run,
                   dbStart, rolledBack, dfd, unitVars, metarVars, passVars>>

\* The relational flow in front of writeAirports
InitLoad ==
    /\ sim = "NAVIGRAPH"
    /\ opts = DefaultOptions
    /\ pc = 1
    /\ curFn = "loadAirports"
    /\ aborted = FALSE
    /\ requested = FALSE
    /\ result = {}
    /\ db = {}
    /\ tx = {}
    /\ dfd = DfdCompilerInit
    /\ log = <<>>
    /\ attached = TRUE
    /\ progressCur = 0
    /\ run = 1
    /\ dbStart = {}
    /\ rolledBack = FALSE
    /\ runways \in LoadRunways
    /\ runwaypairs = <<>>
    /\ airways \in LoadAirways
    /\ procedures \in LoadProcedures
    /\ procState = ProcStateInit("APPCH")
    /\ MetarInit
    /\ PassInit

NextLoad ==
    \/ LoadWriteAirports
    \/ LoadWriteRunways
    \/ LoadWriteAirways
    \/ WriteProcedureRow
    \/ WriteProcedureEnd

SpecLoad == InitLoad /\ [][NextLoad]_vars

-----------------------------------------------------------------------------
(* The METAR index: read() of streams of reports, clear() and getMetar()  *)

\* The stations that report: two airports of the simulator database and one that the
\* database does not have
Stations == {"KAAA", "KBBB", "KZZZ"}

\* The times of observation, in hours
TimeStamps == {12, 13}

\* The METAR report of a station for a time of observation: station, day and time
MetarBody(ident, timestamp) == <<ident, "01", timestamp, "00Z">>

MetarRecords(stations) ==
    {[ident |-> st, timestamp |-> ts, metar |-> MetarBody(st, ts)] :
        st \in stations, ts \in TimeStamps}

\* The streams with reports of the stations: up to MaxMetars reports in any order
MetarStreams(stations) == UNION {[1..n -> MetarRecords(stations)] : n \in 0..MaxMetars}

\* The stations of the streams that are read one after the other: an airport of the
\* simulator database and the station that it does not have
MergeStations == {"KAAA", "KZZZ"}

\* The stations and positions of the getMetar requests; KCCC never reports
RequestStations == Stations \cup {"KCCC"}

RequestPositions == {Pos(1, 1), Pos(5, 5), Pos(9, 8)}

\* The latest timestamp read for every station, after the stream has been read
SeenAfter(seen, stream) ==
    LET idents == (DOMAIN seen) \cup {stream[i].ident : i \in DOMAIN stream}
        times(st) == (IF st \in DOMAIN seen THEN {seen[st]} ELSE {})
                         \cup {stream[i].timestamp : i \in {j \in DOMAIN stream :
                                                                stream[j].ident = st}}
    IN  [st \in idents |-> CHOOSE t \in times(st) : \A u \in times(st) : u <= t]

\* The index as one value
Index == [map |-> identIndexMap, list |-> spatialIndex]

\* read(stream, fileName, merge); the history notes whether the read before was the
\* same and which stations the index had
ReadStream(stream, merge) ==
    LET ix == read(Index, stream, merge)
    IN  /\ identIndexMap' = ix.map
        /\ spatialIndex' = ix.list
        /\ latestSeen' = SeenAfter(IF merge THEN latestSeen ELSE <<>>, stream)
        /\ lastRead' = [merge |-> merge, stream |-> stream, found |-> Len(stream),
                        repeated |-> lastRead.found >= 0 /\ lastRead.merge = merge
                                         /\ lastRead.stream = stream,
                        before |-> DOMAIN identIndexMap]
        /\ UNCHANGED <<metarResult, compilerVars>>

\* clear()
Clear ==
    /\ identIndexMap' = clear(Index).map
    /\ spatialIndex' = clear(Index).list
    /\ latestSeen' = <<>>
    /\ lastRead' = NoRead
    /\ UNCHANGED <<metarResult, compilerVars>>

\* read() at any time
Read ==
    \E stream \in MetarStreams(MergeStations), merge \in BOOLEAN : ReadStream(stream, merge)

\* The first read() into the index
ReadFirst ==
    /\ lastRead = NoRead
    /\ \E stream \in MetarStreams(Stations), merge \in BOOLEAN : ReadStream(stream, merge)

\* getMetar(station, pos)
GetMetar ==
    \E station \in RequestStations, pos \in RequestPositions :
        \E res \in getMetar(Index, station, pos) :
            /\ metarResult' = [station |-> station, pos |-> pos, result |-> res]
            /\ UNCHANGED <<identIndexMap, spatialIndex, latestSeen, lastRead, compilerVars>>

\* The compiler is not running
InitMetar ==
    /\ sim = "NAVIGRAPH"
    /\ opts = DefaultOptions
    /\ pc = 1
    /\ curFn = "done"
    /\ aborted = FALSE
    /\ requested = FALSE
    /\ result = {}
    /\ db = {}
    /\ tx = {}
    /\ dfd = DfdCompilerInit
    /\ log = <<>>
    /\ attached = FALSE
    /\ progressCur = 0
    /\ run = 1
    /\ dbStart = {}
    /\ rolledBack = FALSE
    /\ runways = <<>>
    /\ runwaypairs = <<>>
    /\ airways = <<>>
    /\ procedures = <<>>
    /\ procState = ProcStateInit("")
    /\ MetarInit
    /\ PassInit

NextMetar ==
    \/ Read
    \/ Clear

\* Any number of read() and clear() calls
SpecMetar == InitMetar /\ [][NextMetar]_vars

NextMetarLookup ==
    \/ ReadFirst
    \/ GetMetar

\* One read() and any number of getMetar() calls
SpecMetarLookup == InitMetar /\ [][NextMetarLookup]_vars

-----------------------------------------------------------------------------
(* The navaid passes of loadDfd: writeAirports, writeNavaids, updateMagvar and      *)
(* updateTacanChannel on small tables                                               *)

\* The airports of the source, one of them in the east
NavAirports ==
    <<[airport_identifier |-> "AAAA", longest_runway_surface_code |-> "H",
       airport_ref_longitude |-> 0, airport_ref_latitude |-> 0],
      [airport_identifier |-> "EEEE", longest_runway_surface_code |-> "H",
       airport_ref_longitude |-> 30000, airport_ref_latitude |-> 500]>>

NavPositions == {Pos(100, 200), Pos(30000, 200)}

\* The rows that populate_navaids.sql may have written into waypoint or ndb: ids in
\* order, any position, mag_var not yet that of the magnetic model
NavRows ==
    UNION {[1..n -> [lonx : {q.lonx : q \in NavPositions}, laty : {200}, mag_var : {0, 3}]] :
              n \in 0..MaxNavRows}

VorTypes == {<<"T", "C">>, <<"V", "T", "H">>, <<"V", "T">>, <<"V", "H">>, <<"T">>, <<>>}

\* The rows that populate_navaids.sql may have written into vor
VorRows ==
    UNION {[1..n -> [type : VorTypes, frequency : {108000, 112350}, channel : {Null}]] :
              n \in 0..MaxNavRows}

\* The rows that populate_navaids.sql may have written into ils: localizers of any
\* heading, among them headings whose corner courses cross north, of even widths
IlsRows ==
    UNION {[1..n -> [lonx : {100}, laty : {200}, loc_heading : {0, 90, 181, 359},
                     loc_width : {0, 4, 6}, end1 : {Null}, end_mid : {Null},
                     end2 : {Null}]] : n \in 0..MaxNavRows}

\* The row with its primary key
WithIds(rows) == [i \in DOMAIN rows |-> Cols(rows[i], [id |-> i])]

\* writeAirports of loadDfd
NavWriteAirports ==
    /\ navaids.passes = <<>>
    /\ navaids' = [navaids EXCEPT
                      !.airport = writeAirports(NavAirports,
                                      [tx |-> {}, dfd |-> DfdCompilerInit]).tx,
                      !.passes = Append(@, "writeAirports")]
    /\ UNCHANGED <<dfdVars, metarVars, approach>>

\* writeNavaids of loadDfd: populate_navaids.sql fills waypoint and ndb, or vor, or ils
WriteNavaids ==
    /\ navaids.passes = <<"writeAirports">>
    /\ \E t \in {[waypoint |-> wp, ndb |-> nd, vor |-> <<>>, ils |-> <<>>] :
                        wp \in NavRows, nd \in NavRows}
                 \cup {[waypoint |-> <<>>, ndb |-> <<>>, vor |-> vr, ils |-> <<>>] :
                        vr \in VorRows}
                 \cup {[waypoint |-> <<>>, ndb |-> <<>>, vor |-> <<>>, ils |-> il] :
                        il \in IlsRows} :
          /\ LET tables == [waypoint |-> WithIds(t.waypoint), ndb |-> WithIds(t.ndb),
                            vor |-> WithIds(t.vor), ils |-> WithIds(t.ils)]
             IN  navaids' = [navaids EXCEPT
                                !.waypoint = tables.waypoint, !.ndb = tables.ndb,
                                !.vor = tables.vor, !.ils = tables.ils,
                                !.loaded = tables,
                                !.passes = Append(@, "writeNavaids")]
    /\ UNCHANGED <<dfdVars, metarVars, approach>>

\* updateMagvar of loadDfd
UpdateMagvar ==
    /\ navaids.passes = <<"writeAirports", "writeNavaids">>
    /\ navaids' = [updateMagvar(navaids) EXCEPT !.passes = Append(@, "updateMagvar")]
    /\ UNCHANGED <<dfdVars, metarVars, approach>>

\* updateTacanChannel of loadDfd
UpdateTacanChannel ==
    /\ navaids.passes = <<"writeAirports", "writeNavaids", "updateMagvar">>
    /\ navaids' = [updateTacanChannel(navaids) EXCEPT
                      !.passes = Append(@, "updateTacanChannel")]
    /\ UNCHANGED <<dfdVars, metarVars, approach>>

\* updateIlsGeometry of loadDfd
UpdateIlsGeometry ==
    /\ navaids.passes = <<"writeAirports", "writeNavaids", "updateMagvar",
                          "updateTacanChannel">>
    /\ navaids' = [updateIlsGeometry(navaids) EXCEPT
                      !.passes = Append(@, "updateIlsGeometry")]
    /\ UNCHANGED <<dfdVars, metarVars, approach>>

NextNavaids ==
    \/ NavWriteAirports
    \/ WriteNavaids
    \/ UpdateMagvar
    \/ UpdateTacanChannel
    \/ UpdateIlsGeometry

\* The passes in the order of loadDfd
SpecNavaids == InitMetar /\ [][NextNavaids]_vars

-----------------------------------------------------------------------------
(* The approach record reader *)

\* The sub-records of the records read: legs and missed legs whose size is that of
\* their legs, a legs sub-record that announces more legs than its size holds, a
\* transition, and sub-records of an unknown type, one of them of size 0
SubRecordChoices ==
    {[type |-> "LEGS", num |-> 1, size |-> RecordHeaderSize + 2 + LegSize, data |-> "a"],
     [type |-> "LEGS_MSFS_118", num |-> 2, size |-> RecordHeaderSize + 2 + 2 * LegSize,
      data |-> "b"],
     [type |-> "LEGS", num |-> 2, size |-> RecordHeaderSize + 2 + LegSize, data |-> "c"],
     [type |-> "MISSED_LEGS", num |-> 1, size |-> RecordHeaderSize + 2 + LegSize,
      data |-> "m"],
     [type |-> "TRANSITION", num |-> 0, size |-> 20, data |-> "t"],
     [type |-> "UNKNOWN", num |-> 0, size |-> 10, data |-> "u"],
     [type |-> "UNKNOWN", num |-> 0, size |-> 0, data |-> "z"]}

\* What the stream holds behind the last sub-record, read as a sub-record header
TrailingChoices ==
    {[type |-> "UNKNOWN", num |-> 0, size |-> 3, data |-> "g"],
     [type |-> "LEGS", num |-> 1, size |-> RecordHeaderSize + 2 + LegSize, data |-> "h"]}

\* The size of the record minus the bytes of its header and sub-records: a record that
\* ends inside its last sub-record, an exact one, one with three bytes behind the last
FrameDeltas == {0 - 4, 0, 3}

RECURSIVE SumSizes(_)
SumSizes(children) ==
    IF children = <<>> THEN 0 ELSE Head(children).size + SumSizes(Tail(children))

SubRecordSeqs == UNION {[1..n -> SubRecordChoices] : n \in 0..MaxSubRecords}

\* The approach records read: every flags byte on a record without sub-records, and
\* every choice of sub-records, frame, record type and option with one flags byte
ApproachRecords ==
    {[typeFlags |-> b, airportRecType |-> "APPROACH", includeLegs |-> TRUE,
      children |-> <<>>, size |-> SubRecordsStart("APPROACH")] : b \in 0..255}
    \cup
    {in \in UNION {UNION {
        {[typeFlags |-> 167, airportRecType |-> t, includeLegs |-> incl, children |-> ch,
          size |-> SubRecordsStart(t) + SumSizes(ch) + d] : d \in FrameDeltas}
            : incl \in BOOLEAN, t \in {"APPROACH", "MSFS_APPROACH_NEW"}}
            : ch \in SubRecordSeqs} :
        in.size >= SubRecordsStart(in.airportRecType)}

\* Approach::Approach up to the first test of the loop
ReadApproachHeader ==
    /\ approach.pc = "none"
    /\ \E in \in ApproachRecords : approach' = ApproachHeader(in)
    /\ UNCHANGED <<dfdVars, metarVars, navaids>>

\* One pass of the loop: the header at the offset is that of the next sub-record,
\* or what follows the last one
ReadSubRecord ==
    /\ approach.pc = "subrecords"
    /\ approach.offset < approach.size
    /\ \E r \in (IF approach.next <= Len(approach.in.children)
                 THEN {approach.in.children[approach.next]}
                 ELSE TrailingChoices) :
          approach' = SubRecord(approach, r)
    /\ UNCHANGED <<dfdVars, metarVars, navaids>>

\* The test of the loop fails
EndSubRecords ==
    /\ approach.pc = "subrecords"
    /\ approach.offset >= approach.size
    /\ approach' = [approach EXCEPT !.pc = "returned"]
    /\ UNCHANGED <<dfdVars, metarVars, navaids>>

NextApproach ==
    \/ ReadApproachHeader
    \/ ReadSubRecord
    \/ EndSubRecords

SpecApproach == InitMetar /\ [][NextApproach]_vars

-----------------------------------------------------------------------------
(* Properties *)

\* The places of an operation in the log of the run
At(e) == {i \in 1..Len(log) : log[i] = e}

Ran(e) == At(e) # {}

\* Every occurrence of operation a is before every occurrence of operation b
AllBefore(a, b) == \A i \in At(a), j \in At(b) : i < j

Dedup == "fs/db/delete_duplicates.sql"

PostLoadIndexes ==
    {"fs/db/create_indexes_post_load.sql", "fs/db/create_indexes_post_load_boundary.sql"}

\* Writing and resolving of airways in the three flows
AirwayOps ==
    {"writeAirways", "compileEarthAirway", "fs/db/xplane/prepare_airway.sql",
     "postProcessEarthAirway", "AirwayResolver::assignWaypointIds", "AirwayResolver::run"}

\* The cross-reference scripts
XrefScripts ==
    {"fs/db/update_wp_ids.sql", "fs/db/update_nav_ids.sql", "fs/db/update_approaches.sql",
     "fs/db/update_airport.sql", "fs/db/update_airport_ils.sql",
     "fs/db/dfd/update_airport_ils.sql", "fs/db/update_num_ils.sql",
     "fs/db/dfd/update_navaids.sql"}

ProcedureOps == {"writeProcedure APPCH", "writeProcedure SID", "writeProcedure STAR"}

PopulateNavaidsProc == "fs/db/dfd/populate_navaids_proc.sql"

\* create() has returned and reports the run as aborted
EndedAborted == curFn = "done" /\ "COMPILE_ABORTED" \in result

\* C1: when create() ends because of an abort, the output store holds none of the
\* changes of the run: the committed store and the connection's view are what they
\* were when the run started.
C1_AbortLeavesNoChange == EndedAborted => (db = dbStart /\ tx = dbStart)

\* C2: a step at whose start the progress callback requests the abort writes nothing
\* to the store, and createInternal returns without starting another step.
C2_AbortStopsAtPhaseStart ==
    [][(~requested /\ requested') => (tx' = tx /\ db' = db /\ curFn' = "create")]_vars

\* C3: the result of create() holds COMPILE_ABORTED and the store has been rolled back
\* if and only if the progress callback requested cancellation during the call.
C3_AbortedIffRequested ==
    curFn = "done" => (("COMPILE_ABORTED" \in result /\ rolledBack) <=> requested)

\* C4: the removal of duplicates runs at most once, after both post-load index
\* scripts; with deduplication enabled no airway is written or resolved and no
\* cross-reference script runs before it, and a run that ends without abort has run
\* it exactly once. This holds in all three flows.
C4_DedupOrder ==
    /\ Cardinality(At(Dedup)) <= 1
    /\ Ran(Dedup) => opts.deduplicate
    /\ \A d \in At(Dedup) : \A x \in PostLoadIndexes : \E i \in At(x) : i < d
    /\ opts.deduplicate =>
          \A i \in 1..Len(log) :
              log[i] \in AirwayOps \cup XrefScripts => \E d \in At(Dedup) : d < i
    /\ (curFn = "done" /\ ~aborted /\ opts.deduplicate) => Cardinality(At(Dedup)) = 1

\* C4 witness: a run with deduplication that has ended without abort, with the airways
\* resolved and the last cross-reference script run
C4_Witness ==
    /\ curFn = "done"
    /\ ~aborted
    /\ opts.deduplicate
    /\ Ran(Dedup)
    /\ Ran("AirwayResolver::run")
    /\ Ran("fs/db/update_num_ils.sql")

C6_PopulateBeforeProcedures ==
    sim = "NAVIGRAPH" =>
        /\ \A p \in ProcedureOps : \A i \in At(p) : \E j \in At(PopulateNavaidsProc) : j < i
        /\ AllBefore("writeAirways", PopulateNavaidsProc)
        /\ (Ran(PopulateNavaidsProc) /\ isIncluded("AIRWAY")) => Ran("writeAirways")

\* C6 witness: airways written, waypoints for procedures created, procedures written
C6_Witness ==
    /\ sim = "NAVIGRAPH"
    /\ Ran("writeAirways")
    /\ Ran(PopulateNavaidsProc)
    /\ \A p \in ProcedureOps : Ran(p)

\* The operations that change rows after the first of the final index scripts
LateRowOps ==
    {"fs/db/update_sea_base.sql", "LanguageJson::readFromDirToDb", "DatabaseMeta::updateAll",
     "createPreparationScript"}

\* C7 as stated: after finish_airport_schema has run no later step inserts, updates
\* or deletes rows of the output tables.
C7_NoRowChangeAfterFinalIndexes ==
    \A i \in At("fs/db/finish_airport_schema.sql") :
        \A j \in (i + 1)..Len(log) : EffClass(log[j]) # "rows"

\* C7 amended: after finish_airport_schema has run the only steps that change rows are
\* update_sea_base (FSX, P3D and MSFS only, on the runways, before finish_schema), the
\* loading of the translations (MSFS only), the metadata update and the preparation
\* script (only when indexes are dropped); each of the last three writes to its own
\* table (translation, metadata, script) and runs after the last final index script.
C7_LateRowChangesOnlyMetadata ==
    \A i \in At("fs/db/finish_airport_schema.sql") :
        \A j \in (i + 1)..Len(log) :
            EffClass(log[j]) = "rows" =>
                /\ log[j] \in LateRowOps
                /\ log[j] = "fs/db/update_sea_base.sql" =>
                      /\ sim \in {"FSX", "MSFS"}
                      /\ \A k \in At("fs/db/finish_schema.sql") : j < k
                /\ log[j] # "fs/db/update_sea_base.sql" =>
                      /\ EffTable(log[j]) \in {"translation", "metadata", "script"}
                      /\ \E k \in At("fs/db/finish_schema.sql") : k < j
                /\ log[j] = "LanguageJson::readFromDirToDb" => sim = "MSFS"
                /\ log[j] = "createPreparationScript" => opts.dropIndexes

\* C7 witness: an MSFS run that has ended with all four late row changes made
C7_Witness ==
    /\ curFn = "done"
    /\ ~aborted
    /\ Ran("fs/db/finish_airport_schema.sql")
    /\ \A e \in LateRowOps : Ran(e)
    /\ Ran("vacuum")
    /\ Ran("analyze")

NameNum(name) == ToInt(MidN(name, 0, 2))

NameSide(name) == Mid(name, 2)

\* Name b is the geometric opposite of name a: the number is (n + 18) mod 36 with 0
\* written as 36, L and R are swapped, any other side letter or none is kept
OppositeNames(a, b) ==
    LET n == (NameNum(a) + 18) % 36
    IN  /\ NameNum(b) = (IF n = 0 THEN 36 ELSE n)
        /\ (NameNum(a) + 36 - NameNum(b)) % 36 = 18
        /\ NameSide(b) = (IF NameSide(a) = <<"L">> THEN <<"R">>
                          ELSE IF NameSide(a) = <<"R">> THEN <<"L">> ELSE NameSide(a))

RunwayEnds(id) == {e \in Rows(tx, "runway_end") : e.id = id}

\* C9: every runway row references two different runway end rows, a primary and a
\* secondary one with consecutive ids that no other runway row uses, and the name of
\* the secondary end is the geometric opposite of the name of the primary end, for
\* matched pairs and for pairs with a synthesized end.
C9_RunwayReferencesTwoOppositeEnds ==
    \A r \in Rows(tx, "runway") :
        /\ r.fk[2] # r.fk[3]
        /\ r.fk[3] = r.fk[2] + 1
        /\ Cardinality(RunwayEnds(r.fk[2])) = 1
        /\ Cardinality(RunwayEnds(r.fk[3])) = 1
        /\ \A q \in Rows(tx, "runway") :
              q # r => {q.fk[2], q.fk[3]} \cap {r.fk[2], r.fk[3]} = {}
        /\ \A a \in RunwayEnds(r.fk[2]), b \in RunwayEnds(r.fk[3]) :
              /\ a.val.end_type = "P"
              /\ b.val.end_type = "S"
              /\ OppositeNames(a.key, b.key)

\* C9 witness: the runways of an airport have been written, one from a matched pair
\* with a side letter and one with a synthesized, closed secondary end
C9_Witness ==
    /\ curFn = "done"
    /\ Ran("writeRunwaysForAirport")
    /\ \E r \in Rows(tx, "runway") :
          \E a \in RunwayEnds(r.fk[2]), b \in RunwayEnds(r.fk[3]) :
              b.val.is_landing /\ NameSide(a.key) = <<"L">> /\ NameSide(b.key) = <<"R">>
    /\ \E r \in Rows(tx, "runway") : \E b \in RunwayEnds(r.fk[3]) : ~b.val.is_landing

\* The places, as <<pair, side>>, where the runway end with identifier ident occurs in
\* the pairs
Occurrences(ident) ==
    {o \in (1..Len(runwaypairs)) \X {1, 2} :
        runwaypairs[o[1]][o[2]].runway_identifier = ident}

\* C10: for runway ends with pairwise distinct identifiers every input end occurs in
\* exactly one place of the pairs that pairRunways emits.
C10_EachEndPairedOnce ==
    Ran("writeRunwaysForAirport") =>
        \A i \in 1..Len(runways) :
            Cardinality(Occurrences(runways[i].runway_identifier)) = 1

\* The input end with the opposite name of input end i is in the input set
OppositePresent(i) ==
    \E j \in 1..Len(runways) :
        OppositeNames(Mid(runways[i].runway_identifier, 2), Mid(runways[j].runway_identifier, 2))

\* The pairs that pairRunways has emitted with input end i as their first end
PairsOf(i) == {k \in 1..Len(runwaypairs) : runwaypairs[k][1] = runways[i]}

\* Input end i has been paired as the opposite end of an earlier input end
PairedWithEarlier(i) ==
    \E j \in 1..(i - 1) : \E k \in PairsOf(j) : runwaypairs[k][2] = runways[i]

\* Record s is the closed stub of end rw: a copy with the opposite identifier, no
\* displaced threshold, no localizer, the opposed true bearing and the closed flag
IsStubOf(s, rw) ==
    /\ DOMAIN s = (DOMAIN rw) \cup {"is_closed"}
    /\ "is_closed" \notin DOMAIN rw
    /\ s.is_closed = TRUE
    /\ SubSeq(s.runway_identifier, 1, 2) = <<"R", "W">>
    /\ OppositeNames(Mid(rw.runway_identifier, 2), Mid(s.runway_identifier, 2))
    /\ s.displaced_threshold_distance = 0
    /\ s.llz_identifier = <<>>
    /\ s.runway_true_bearing = (rw.runway_true_bearing + 180) % 360
    /\ \A f \in (DOMAIN rw) \ {"runway_identifier", "displaced_threshold_distance",
                                 "llz_identifier", "runway_true_bearing"} : s[f] = rw[f]

\* The secondary end of pair k is a synthesized one
StubPair(k) == "is_closed" \in DOMAIN runwaypairs[k][2]

\* The secondary runway end row written for pair k is closed for takeoff and landing
\* and has no displaced threshold and no localizer
ClosedEndWritten(k) ==
    \E e \in Rows(tx, "runway_end") :
        /\ e.id = 2 * k
        /\ e.val.end_type = "S"
        /\ e.key = Mid(runwaypairs[k][2].runway_identifier, 2)
        /\ ~e.val.is_takeoff
        /\ ~e.val.is_landing
        /\ e.val.offset_threshold = 0
        /\ e.val.ils_ident = <<>>

\* C11 as stated: for every input end whose opposite end is not in the input set
\* pairRunways emits exactly one pair of that end and its closed stub; for an end whose
\* opposite is in the input set no stub is synthesized; the stub is written closed.
C11_StubForEveryUnmatchedEnd ==
    Ran("writeRunwaysForAirport") =>
        /\ \A i \in 1..Len(runways) :
              /\ ~OppositePresent(i) =>
                    /\ Cardinality(PairsOf(i)) = 1
                    /\ \A k \in PairsOf(i) : IsStubOf(runwaypairs[k][2], runways[i])
              /\ OppositePresent(i) => \A k \in PairsOf(i) : ~StubPair(k)
        /\ \A k \in 1..Len(runwaypairs) : StubPair(k) => ClosedEndWritten(k)

\* C11 amended: the same for every input end that has not already been paired as the
\* opposite end of an earlier input end; an end that has been is skipped, and no pair
\* starts from it.
C11_StubForUnmatchedUnpairedEnd ==
    Ran("writeRunwaysForAirport") =>
        /\ \A i \in 1..Len(runways) :
              /\ (~OppositePresent(i) /\ ~PairedWithEarlier(i)) =>
                    /\ Cardinality(PairsOf(i)) = 1
                    /\ \A k \in PairsOf(i) : IsStubOf(runwaypairs[k][2], runways[i])
              /\ PairedWithEarlier(i) => PairsOf(i) = {}
              /\ OppositePresent(i) => \A k \in PairsOf(i) : ~StubPair(k)
        /\ \A k \in 1..Len(runwaypairs) :
              /\ StubPair(k) => ClosedEndWritten(k)
              /\ StubPair(k) =>
                    \E i \in 1..Len(runways) : k \in PairsOf(i) /\ ~OppositePresent(i)

\* C11 witness: the runways of an airport have been written from an input with a
\* matched pair and an end with a localizer whose opposite end is missing
C11_Witness ==
    /\ Ran("writeRunwaysForAirport")
    /\ \E i \in 1..Len(runways) :
          /\ ~OppositePresent(i)
          /\ runways[i].llz_identifier # <<>>
          /\ \E k \in PairsOf(i) : StubPair(k) /\ ClosedEndWritten(k)
    /\ \E i \in 1..Len(runways) :
          OppositePresent(i) /\ \E k \in PairsOf(i) : ~StubPair(k)

\* The airway segments written for route name and fragment
Segments(name, fragment) ==
    {a \in Rows(tx, "airway") : a.key = <<name>> /\ a.val.airway_fragment_no = fragment}

\* C12: within one airway name and fragment the sequence numbers of the segments are
\* 1, 2, ... without repetition, and the to_waypoint of the segment with sequence
\* number i is the from_waypoint of the segment with sequence number i + 1.
C12_SegmentsOfFragmentConnect ==
    \A a, b \in Rows(tx, "airway") :
        (a.key = b.key /\ a.val.airway_fragment_no = b.val.airway_fragment_no) =>
            /\ (a.val.sequence_no = b.val.sequence_no) => a = b
            /\ (b.val.sequence_no = a.val.sequence_no + 1) => a.fk[2] = b.fk[1]
            /\ a.val.sequence_no \in 1..Cardinality(Segments(a.key[1], a.val.airway_fragment_no))

\* C12 witness: writeAirways has written a fragment of two connected segments and a
\* second fragment of the same airway
C12_Witness ==
    /\ Ran("writeAirways")
    /\ \E a, b \in Rows(tx, "airway") :
          /\ a.key = b.key
          /\ a.val.airway_fragment_no = b.val.airway_fragment_no
          /\ b.val.sequence_no = a.val.sequence_no + 1
    /\ \E a, b \in Rows(tx, "airway") :
          a.key = b.key /\ a.val.airway_fragment_no = 1 /\ b.val.airway_fragment_no = 2

\* Row i of the airway query ends its route: the second character of the code is E
EndsRoute(i) ==
    Len(airways[i].waypoint_description_code) >= 2
        /\ airways[i].waypoint_description_code[2] = "E"

\* The segments written from the waypoint of row i to the waypoint of row j
SegmentsFromTo(i, j) ==
    {a \in Rows(tx, "airway") : a.fk = <<airways[i].waypoint_id, airways[j].waypoint_id>>}

\* C13: writeAirways writes a segment from a row to the next row of the query exactly
\* when both have the same route name and the first does not end the route, one
\* segment for each such place and no other segment; the segment carries that route
\* name, so no segment joins two routes or continues past an end of route, and a
\* route or fragment of one waypoint gets no segment.
C13_SegmentIffSameRouteNotEnded ==
    Ran("writeAirways") =>
        /\ \A i \in 1..(Len(airways) - 1) :
              IF airways[i].route_identifier = airways[i + 1].route_identifier /\ ~EndsRoute(i)
              THEN /\ Cardinality(SegmentsFromTo(i, i + 1)) = 1
                   /\ \A a \in SegmentsFromTo(i, i + 1) :
                         a.key = <<airways[i].route_identifier>>
              ELSE SegmentsFromTo(i, i + 1) = {}
        /\ \A a \in Rows(tx, "airway") :
              \E i \in 1..(Len(airways) - 1) : a \in SegmentsFromTo(i, i + 1)

\* C13 witness: writeAirways has run on rows with a segment, a change of the route name,
\* a row that ends the route followed by a row of the same route, and a route of a
\* single waypoint
C13_Witness ==
    /\ Ran("writeAirways")
    /\ Rows(tx, "airway") # {}
    /\ \E i \in 1..(Len(airways) - 1) :
          airways[i].route_identifier # airways[i + 1].route_identifier
    /\ \E i \in 1..(Len(airways) - 1) :
          airways[i].route_identifier = airways[i + 1].route_identifier /\ EndsRoute(i)
    /\ \E i \in 1..Len(airways) :
          \A j \in 1..Len(airways) :
              airways[j].route_identifier = airways[i].route_identifier => j = i

\* The rectangle stored in airport row a covers the position
RectCovers(a, lonx, laty) ==
    /\ a.val.left_lonx <= lonx
    /\ lonx <= a.val.right_lonx
    /\ a.val.bottom_laty <= laty
    /\ laty <= a.val.top_laty

\* C14: after the runways of an airport have been written the rectangle stored for
\* every airport covers the reference point of the airport inflated by 100 meter and
\* the primary and secondary end position of every runway of the airport, as they are
\* stored with the runway and with its two ends.
C14_AirportRectCoversRunwayEnds ==
    Ran("writeRunwaysForAirport") =>
        \A a \in Rows(tx, "airport") :
            /\ RectCovers(a, a.val.lonx - 100, a.val.laty - 100)
            /\ RectCovers(a, a.val.lonx + 100, a.val.laty + 100)
            /\ \A r \in Rows(tx, "runway") :
                  r.fk[1] = a.id =>
                      /\ RectCovers(a, r.val.primary_lonx, r.val.primary_laty)
                      /\ RectCovers(a, r.val.secondary_lonx, r.val.secondary_laty)
                      /\ \A e \in RunwayEnds(r.fk[2]) \cup RunwayEnds(r.fk[3]) :
                            RectCovers(a, e.val.lonx, e.val.laty)

\* C14 witness: an airport with two runways whose ends lie outside the first rectangle
\* of the airport, one of them with two different end positions
C14_Witness ==
    /\ Ran("writeRunwaysForAirport")
    /\ \E a \in Rows(tx, "airport") :
          /\ Cardinality({r \in Rows(tx, "runway") : r.fk[1] = a.id}) >= 2
          /\ \E r \in Rows(tx, "runway") :
                /\ r.fk[1] = a.id
                /\ r.val.primary_laty > a.val.laty + 100
                /\ r.val.secondary_laty < a.val.laty - 100
          /\ a.val.left_lonx < a.val.lonx - 100
          /\ a.val.top_laty > a.val.laty + 100
          /\ a.val.bottom_laty < a.val.laty - 100

\* The calls that writeProcedure has made to the procedure writer
Calls == procState.calls

\* C15: every procedure row handed to the procedure writer carries the id of an airport
\* that the airport pass has written and registered in the airport index under the
\* airport identifier of the row; no row is handed over with the airport id 0.
C15_ProcedureCarriesWrittenAirport ==
    \A k \in DOMAIN Calls :
        Calls[k].op = "write" =>
            /\ Calls[k].input.airportId # 0
            /\ Calls[k].input.airportId =
                  GetAirportId(dfd.airportIndex, Calls[k].input.airportIdent)
            /\ \E a \in Rows(tx, "airport") :
                  a.id = Calls[k].input.airportId /\ a.key = <<Calls[k].input.airportIdent>>

\* The number of rows written before call k
WritesBefore(k) == Cardinality({j \in 1..(k - 1) : Calls[j].op = "write"})

\* The rows that are the last of a maximal run of rows with the same airport identifier
RunEnds ==
    {i \in 1..Len(procedures) :
        \/ i = Len(procedures)
        \/ procedures[i].airport_identifier # procedures[i + 1].airport_identifier}

\* The finish calls made after row i and before row i + 1
Flushed(i) == {k \in DOMAIN Calls : Calls[k].op = "finish" /\ WritesBefore(k) = i}

\* The flush after row i is due: the next row has been written or the function is done
FlushDue(i) == IF i = Len(procedures) THEN curFn = "done" ELSE procState.num > i

\* The rows are written one by one in the order of the query, finish is followed by
\* reset and reset follows finish
WritesInOrder ==
    /\ Cardinality({k \in DOMAIN Calls : Calls[k].op = "write"}) = procState.num
    /\ \A k \in DOMAIN Calls :
          /\ Calls[k].op = "write" =>
                /\ Calls[k].input.seqNr = procedures[WritesBefore(k) + 1].seqno
                /\ Calls[k].input.airportIdent =
                      procedures[WritesBefore(k) + 1].airport_identifier
                /\ Calls[k].input.sidStarAppIdent =
                      procedures[WritesBefore(k) + 1].procedure_identifier
          /\ Calls[k].op = "finish" => (k < Len(Calls) /\ Calls[k + 1].op = "reset")
          /\ Calls[k].op = "reset" => (k > 1 /\ Calls[k - 1].op = "finish")

\* Call k flushes the run that ends with the last row written before it, with an input
\* that carries the airport of that run
FlushesRun(k) ==
    /\ WritesBefore(k) \in RunEnds
    /\ Calls[k].input.airportIdent = procedures[WritesBefore(k)].airport_identifier

\* C16 as stated: write is called once per row in the order of the query; finish and
\* then reset are called exactly once per maximal run of rows with the same airport
\* identifier, after the last row of the run and before the first row of the next
\* airport, with an input that carries the airport of the run.
C16_FlushOncePerAirportRun ==
    /\ WritesInOrder
    /\ \A k \in DOMAIN Calls : Calls[k].op = "finish" => FlushesRun(k)
    /\ \A i \in RunEnds : Cardinality(Flushed(i)) = (IF FlushDue(i) THEN 1 ELSE 0)

\* C16 amended: the same for every query with at least one row; for a query without
\* rows finish and reset are still called once, with the input as constructed (no
\* airport), although there is no run to flush.
C16_FlushOncePerRunOrOnceWhenEmpty ==
    /\ WritesInOrder
    /\ \A k \in DOMAIN Calls :
          Calls[k].op = "finish" =>
              IF Len(procedures) = 0
              THEN k = 1 /\ curFn = "done" /\ Calls[k].input.airportIdent = ""
              ELSE FlushesRun(k)
    /\ \A i \in RunEnds : Cardinality(Flushed(i)) = (IF FlushDue(i) THEN 1 ELSE 0)
    /\ (Len(procedures) = 0 /\ curFn = "done") =>
          Cardinality({k \in DOMAIN Calls : Calls[k].op = "finish"}) = 1

\* C16 witness: writeProcedure has returned after rows of two airports, the first with
\* more than one row, with one flush for each airport
C16_Witness ==
    /\ curFn = "done"
    /\ Ran("writeProcedure")
    /\ Cardinality(RunEnds) = 2
    /\ 1 \notin RunEnds
    /\ \A i \in RunEnds : \E k \in Flushed(i) : FlushesRun(k)

\* The entry of a station in an index
EntryOf(map, list, st) == list[map[st] + 1]

\* The stations with a report in the stream, and the latest time of a station in it
StationsIn(stream) == {stream[i].ident : i \in DOMAIN stream}

LatestIn(stream, st) ==
    LET times == {stream[i].timestamp : i \in {j \in DOMAIN stream : stream[j].ident = st}}
    IN  CHOOSE t \in times : \A u \in times : u <= t

\* C17: after any sequence of read() calls the index has at most one entry per station
\* identifier, and getMetar for a station that has been inserted returns, for any
\* position, the report with the latest timestamp read for the station, in whatever
\* order the reports arrived.
C17_OneEntryWithLatestReport ==
    /\ \A i, j \in DOMAIN spatialIndex :
          spatialIndex[i].ident = spatialIndex[j].ident => i = j
    /\ DOMAIN identIndexMap = {spatialIndex[i].ident : i \in DOMAIN spatialIndex}
    /\ \A st \in DOMAIN identIndexMap :
          /\ identIndexMap[st] + 1 \in DOMAIN spatialIndex
          /\ EntryOf(identIndexMap, spatialIndex, st).ident = st
    /\ DOMAIN latestSeen = DOMAIN identIndexMap
    /\ \A st \in DOMAIN latestSeen, pos \in RequestPositions :
          \A res \in getMetar(Index, st, pos) :
              /\ res.timestamp = latestSeen[st]
              /\ res.metar = MetarBody(st, latestSeen[st])

\* C17 witness: a merging read has brought an older report of a station whose later
\* report the index already had, and the index has a second station
C17_Witness ==
    /\ lastRead.found > 0
    /\ lastRead.merge
    /\ Cardinality(DOMAIN identIndexMap) = 2
    /\ \E st \in lastRead.before :
          /\ st \in StationsIn(lastRead.stream)
          /\ LatestIn(lastRead.stream, st) < EntryOf(identIndexMap, spatialIndex, st).timestamp

\* C18: a read() without merge leaves exactly the stations of its stream in the index,
\* each with the latest report of the stream and nothing of earlier reads; a read()
\* with merge keeps every station that the index had, with the report that it had
\* unless the stream has a later one.
C18_ReadClearsOrKeeps ==
    [][lastRead'.found >= 0 =>
          IF ~lastRead'.merge
          THEN /\ DOMAIN identIndexMap' = StationsIn(lastRead'.stream)
               /\ Len(spatialIndex') = Cardinality(StationsIn(lastRead'.stream))
               /\ \A st \in DOMAIN identIndexMap' :
                     EntryOf(identIndexMap', spatialIndex', st).timestamp
                         = LatestIn(lastRead'.stream, st)
          ELSE \A st \in DOMAIN identIndexMap :
                  /\ st \in DOMAIN identIndexMap'
                  /\ LET old == EntryOf(identIndexMap, spatialIndex, st)
                         new == EntryOf(identIndexMap', spatialIndex', st)
                     IN  IF st \in StationsIn(lastRead'.stream)
                              /\ LatestIn(lastRead'.stream, st) > old.timestamp
                         THEN /\ new.timestamp = LatestIn(lastRead'.stream, st)
                              /\ new.metar = MetarBody(st, new.timestamp)
                         ELSE new.metar = old.metar /\ new.timestamp = old.timestamp
    ]_vars

\* C18 witness: a read() without merge has left the stations of its stream only, in an
\* index that had another station before
C18_Witness ==
    /\ lastRead.found > 0
    /\ ~lastRead.merge
    /\ \E st \in lastRead.before : st \notin StationsIn(lastRead.stream)
    /\ DOMAIN identIndexMap = StationsIn(lastRead.stream)

\* C19: a read() without merge that follows a read() without merge of the same stream
\* leaves the identifier map and the spatial index as they are.
C19_RepeatedReadSameIndex ==
    [][(lastRead'.repeated /\ ~lastRead'.merge) =>
          (identIndexMap' = identIndexMap /\ spatialIndex' = spatialIndex)]_vars

\* C19 witness: the same stream of two reports, one of a station without coordinates,
\* has been read twice without merge
C19_Witness ==
    /\ lastRead.repeated
    /\ ~lastRead.merge
    /\ lastRead.found = 2
    /\ Len(spatialIndex) = 2
    /\ \E i \in DOMAIN spatialIndex : ~spatialIndex[i].pos.valid

\* The entries of the spatial index with valid coordinates
Indexed == {spatialIndex[i] : i \in {j \in DOMAIN spatialIndex : spatialIndex[j].pos.valid}}

\* C20: getMetar returns the report of the station of the request when the index has
\* it, else the report of a station with coordinates that no other is nearer to the
\* position of the request than, else no report; the result always carries the
\* station identifier and the position of the request.
C20_StationOrNearest ==
    [][metarResult' # metarResult =>
          LET station == metarResult'.station
              pos == metarResult'.pos
              res == metarResult'.result
          IN  /\ res.requestIdent = station
              /\ res.requestPos = pos
              /\ IF station \in DOMAIN identIndexMap
                 THEN res.metar = EntryOf(identIndexMap, spatialIndex, station).metar
                 ELSE IF Indexed # {}
                      THEN \E e \in Indexed :
                              /\ res.metar = e.metar
                              /\ \A f \in Indexed :
                                    DistanceSq(e.pos, pos) <= DistanceSq(f.pos, pos)
                      ELSE res.metar = <<>>
    ]_vars

\* C20 witness: a request for a station that has no report, at a position nearer to
\* KAAA than to KBBB, has got the report of KAAA
C20_Witness ==
    /\ metarResult.station = "KCCC"
    /\ metarResult.pos = Pos(1, 1)
    /\ {"KAAA", "KBBB"} \subseteq DOMAIN identIndexMap
    /\ metarResult.result.metar[1] = "KAAA"
    /\ metarResult.result.requestIdent = "KCCC"

\* The entries of the spatial index whose station the callback could not resolve
Unresolved == {spatialIndex[i] : i \in {j \in DOMAIN spatialIndex : ~spatialIndex[j].pos.valid}}

\* C21: a station whose identifier the coordinates callback cannot resolve is never the
\* nearest station returned for a request for another identifier, and its report is
\* still returned by getMetar for a request for its own identifier.
C21_UnresolvedNotNearestButByIdent ==
    [][metarResult' # metarResult =>
          LET station == metarResult'.station
              res == metarResult'.result
          IN  \A e \in Unresolved :
                  IF e.ident = station
                  THEN res.metar = e.metar /\ res.timestamp = e.timestamp
                  ELSE res.metar # e.metar
    ]_vars

\* C21 witness: a request for a station without a report, at a position nearer to 0/0
\* than to KBBB, has got the report of KBBB while the index has the unresolved KZZZ
C21_Witness ==
    /\ metarResult.station = "KCCC"
    /\ metarResult.pos = Pos(1, 1)
    /\ DOMAIN identIndexMap = {"KBBB", "KZZZ"}
    /\ \E e \in Unresolved : e.ident = "KZZZ"
    /\ metarResult.result.metar[1] = "KBBB"

\* C22: with basic validation enabled, the result of the run has
\* COMPILE_BASIC_VALIDATION_ERROR exactly when a table of the validation options has
\* fewer rows than its minimum.
C22_ValidationErrorIffShortTable ==
    (curFn = "done" /\ opts.basicValidation) =>
        (("COMPILE_BASIC_VALIDATION_ERROR" \in result) <=> foundBasicValidationError(db))

\* The operations of the relational adapter that query the source database
SourceQueryOps ==
    {"initQueries", "readHeader", "writeMora", "writeAirports", "writeRunways",
     "writeParking", "writeNavaids", "writePathpoints", "writeAirspaces",
     "writeAirspaceCom", "writeCom", "writeAirways", "writeProcedure APPCH",
     "writeProcedure SID", "writeProcedure STAR", "writeAirportMsa"}

\* Every query of the source database follows attachDatabase
C23_AttachedBeforeSourceQuery ==
    \A i \in DOMAIN log :
        log[i] \in SourceQueryOps => \E j \in 1..(i - 1) : log[j] = "attachDatabase"

\* C23: in a run from the relational source the source database is attached as 'src'
\* before the first query of it, and is detached whenever create() has returned, on
\* the normal path and on every abort path.
C23_AttachedForQueriesDetachedAtReturn ==
    /\ C23_AttachedBeforeSourceQuery
    /\ (curFn = "done" /\ sim = "NAVIGRAPH") => ~attached

\* Every drop script runs before the first create script of the run
C24_DropsBeforeCreates ==
    \A i, j \in DOMAIN log :
        (log[i] \in DropScripts /\ log[j] \in SchemaScripts) => i < j

\* C24: in schema creation every step that has run a script, each of the seven drop
\* steps and the create step, has committed it, so that whatever earlier steps have
\* done is in the committed store when an abort is requested afterwards; all drop steps
\* precede the first create step.
C24_EachSchemaStepCommitted ==
    [][(curFn = "createSchemaInternal" /\ log' # log) =>
          (db' = tx' /\ C24_DropsBeforeCreates')]_vars

\* The rows of a table of the navaid passes carry the declination of the magnetic
\* model at their position
MagvarOfModel(rows) ==
    \A i \in DOMAIN rows : rows[i].mag_var = getMagVar(Pos(rows[i].lonx, rows[i].laty))

C26_ChannelForTacanAndVortacOnly ==
    "updateTacanChannel" \in Range(navaids.passes) =>
        /\ DOMAIN navaids.vor = DOMAIN navaids.loaded.vor
        /\ \A i \in DOMAIN navaids.vor :
              LET row == navaids.vor[i]
                  was == navaids.loaded.vor[i]
              IN  /\ row.id = was.id /\ row.type = was.type
                  /\ row.frequency = was.frequency
                  /\ IF was.type = <<"T", "C">>
                         \/ (Len(was.type) >= 2 /\ was.type[1] = "V" /\ was.type[2] = "T")
                     THEN row.channel = tacanChannelForFrequency(was.frequency \div 10)
                     ELSE row.channel = was.channel /\ row.channel = Null

\* C26 witness: the pass has run on a VORTAC row, which has got the channel 70Y of
\* 112.35 MHz, and on a VOR row of a type that begins with V but not with VT, which has
\* no channel
C26_Witness ==
    /\ "updateTacanChannel" \in Range(navaids.passes)
    /\ \E i, j \in DOMAIN navaids.vor :
          /\ navaids.vor[i].type = <<"V", "T", "H">>
          /\ navaids.vor[i].frequency = 112350
          /\ navaids.vor[i].channel = <<70, "Y">>
          /\ navaids.vor[j].type = <<"V", "H">>
          /\ navaids.vor[j].channel = Null

\* The write calls made to the procedure writer, in order
Writes == SelectSeq(Calls, LAMBDA c : c.op = "write")

\* C27: for every procedure row the dual-purpose column is handed on as hold time with
\* hold distance 0 when the path termination starts with H, and as hold distance with
\* hold time 0 otherwise, whatever the row before has left in the input.
C27_HoldTimeOrDistance ==
    /\ Len(Writes) = procState.num
    /\ \A k \in DOMAIN Writes :
          LET row == procedures[k]
              value == row.route_distance_holding_distance_time
              input == Writes[k].input
          IN  IF row.path_termination # <<>> /\ row.path_termination[1] = "H"
              THEN input.rteHoldTime = value /\ input.rteHoldDist = 0
              ELSE input.rteHoldDist = value /\ input.rteHoldTime = 0

\* C27 witness: a holding row, a row that is none and again a holding row of the same
\* airport have been handed on one after the other
C27_Witness ==
    /\ Len(Writes) >= 3
    /\ \E k \in 1..(Len(Writes) - 2) :
          /\ Writes[k].input.rteHoldTime # 0
          /\ Writes[k + 1].input.rteHoldDist # 0
          /\ Writes[k + 2].input.rteHoldTime # 0
          /\ Writes[k].input.airportIdent = Writes[k + 2].input.airportIdent

-----------------------------------------------------------------------------
(* The approach record *)

\* C28: for every flags byte b in 0..255 the decoded type is b mod 16, the runway
\* designator is (b div 16) mod 8 and the GPS overlay flag is b >= 128, and the three
\* give the byte back: type + 16 * designator + 128 * overlay = b.
C28_FlagsByteDecoded ==
    approach.pc # "none" =>
        LET b == approach.in.typeFlags
        IN  /\ b \in 0..255
            /\ approach.type = b % 16
            /\ approach.runwayDesignator = (b \div 16) % 8
            /\ approach.gpsOverlay = (b >= 128)
            /\ approach.type + 16 * approach.runwayDesignator
                    + 128 * (IF approach.gpsOverlay THEN 1 ELSE 0) = b

\* A record with all eight bits of the flags byte set has been read
C28_Witness ==
    /\ approach.pc # "none"
    /\ approach.in.typeFlags = 255
    /\ approach.type = 15
    /\ approach.runwayDesignator = 7
    /\ approach.gpsOverlay

\* A record whose sub-records have at least their header, whose legs have the size of
\* the legs they announce and whose frame ends with its last sub-record
WellFormed(in) ==
    /\ in.size = SubRecordsStart(in.airportRecType) + SumSizes(in.children)
    /\ \A i \in 1..Len(in.children) :
          LET r == in.children[i]
          IN  /\ r.size >= RecordHeaderSize
              /\ r.type \in LegsTypes \cup MissedLegsTypes
                    => r.size = RecordHeaderSize + 2 + r.num * LegSize

IsKnown(r) == r.type \in LegsTypes \cup MissedLegsTypes \cup TransitionTypes

\* The record without its sub-records of unknown type
WithoutUnknown(in) ==
    LET known == SelectSeq(in.children, IsKnown)
    IN  [in EXCEPT !.children = known,
                   !.size = @ - (SumSizes(in.children) - SumSizes(known))]

RECURSIVE ReadAll(_, _)
\* The loop run on the sub-records of a.in, at most n passes
ReadAll(a, n) ==
    IF n = 0 \/ a.pc # "subrecords" \/ a.offset >= a.size
             \/ a.next > Len(a.in.children)
    THEN a
    ELSE ReadAll(SubRecord(a, a.in.children[a.next]), n - 1)

\* C29: a sub-record of unknown type does not end the reading of the approach: after
\* every sub-record, known or unknown, the stream is at that sub-record's end, every
\* sub-record is passed, and the legs, missed legs and transitions read are those
\* read from the same record without its unknown sub-records.
C29_UnknownSubRecordSkipped ==
    (approach.pc # "none" /\ WellFormed(approach.in)) =>
        /\ \A d \in approach.done : ~d.rejected /\ d.offset = d.start + d.r.size
        /\ approach.pc = "returned" =>
              LET same == ReadAll(ApproachHeader(WithoutUnknown(approach.in)),
                                  MaxSubRecords + 1)
              IN  /\ Cardinality(approach.done) = Len(approach.in.children)
                  /\ approach.offset = approach.size
                  /\ approach.legs = same.legs
                  /\ approach.missedLegs = same.missedLegs
                  /\ approach.transitions = same.transitions

\* An unknown sub-record was passed and the legs behind it were read
C29_Witness ==
    /\ approach.pc = "returned"
    /\ WellFormed(approach.in)
    /\ Len(approach.in.children) = 2
    /\ ~IsKnown(approach.in.children[1])
    /\ approach.in.children[2].type \in LegsTypes
    /\ approach.legs # <<>>

\* C30: the loop reads nothing behind the frame of the approach record: a sub-record
\* that ends behind startOffset + size is not decoded, no byte behind the frame is
\* read, and when the constructor returns the stream is not behind the frame.
C30_NothingReadBehindFrame ==
    approach.pc # "none" =>
        /\ \A d \in approach.done : d.start + d.r.size > approach.size => d.rejected
        /\ approach.maxRead <= approach.size
        /\ approach.pc = "returned" => approach.offset <= approach.size

-----------------------------------------------------------------------------
(* The ILS geometry pass *)

\* C31: for every row of table ils the two corners of the feather are projected from
\* the origin of the localizer at the length of the feather on the courses
\* (heading + 180 - width/2) and (heading + 180 + width/2) modulo 360, and the middle
\* point on the course (heading + 180) modulo 360 at the length minus half the distance
\* between the corners, which is shorter than the length when the width is not 0.
C31_FeatherProjectedFromOrigin ==
    "updateIlsGeometry" \in Range(navaids.passes) =>
        /\ DOMAIN navaids.ils = DOMAIN navaids.loaded.ils
        /\ \A i \in DOMAIN navaids.ils :
              LET row == navaids.ils[i]
                  was == navaids.loaded.ils[i]
                  origin == Pos(was.lonx, was.laty)
                  length == 9 * 1852
              IN  /\ row.end1.origin = origin /\ row.end2.origin = origin
                  /\ row.end_mid.origin = origin
                  /\ row.end1.dist = length /\ row.end2.dist = length
                  /\ row.end1.course = (was.loc_heading + 180 + 360 - was.loc_width \div 2) % 360
                  /\ row.end2.course = (was.loc_heading + 180 + was.loc_width \div 2) % 360
                  /\ row.end_mid.course = (was.loc_heading + 180) % 360
                  /\ row.end_mid.dist = length - distanceMeterTo(row.end1, row.end2) \div 2
                  /\ was.loc_width > 0 => row.end_mid.dist < length
                  /\ row.end_mid.dist > 0

\* C31 witness: the pass has run on a localizer of heading 090 and width 4, whose
\* corners are on the courses 268 and 272, and on one of heading 181, whose first
\* corner is on a course west of north
C31_Witness ==
    /\ "updateIlsGeometry" \in Range(navaids.passes)
    /\ \E i, j \in DOMAIN navaids.ils :
          /\ navaids.ils[i].loc_heading = 90 /\ navaids.ils[i].loc_width = 4
          /\ navaids.ils[i].end1.course = 268 /\ navaids.ils[i].end2.course = 272
          /\ navaids.ils[i].end_mid.course = 270
          /\ navaids.ils[i].end_mid.dist < navaids.ils[i].end1.dist
          /\ navaids.ils[j].loc_heading = 181 /\ navaids.ils[j].loc_width = 4
          /\ navaids.ils[j].end1.course = 359

-----------------------------------------------------------------------------
(* Airway segments *)

\* C32: every airway segment has type, direction and altitudes of its from-row:
\* flight level H gives type J, L gives V, B or blank gives B; a blank or space
\* direction gives N, F gives F, B gives B, and no other direction is written.
C32_TypeAndDirectionOfFromRow ==
    Ran("writeAirways") =>
        \A i \in 1..(Len(airways) - 1) : \A a \in SegmentsFromTo(i, i + 1) :
            LET from == airways[i]
            IN  /\ from.flightlevel = "H" => a.val.airway_type = "J"
                /\ from.flightlevel = "L" => a.val.airway_type = "V"
                /\ from.flightlevel \in {"B", ""} => a.val.airway_type = "B"
                /\ from.direction_restriction \in {"", " "} => a.val.direction = "N"
                /\ from.direction_restriction = "F" => a.val.direction = "F"
                /\ from.direction_restriction = "B" => a.val.direction = "B"
                /\ a.val.minimum_altitude = from.minimum_altitude1
                /\ a.val.maximum_altitude = from.maximum_altitude
                /\ a.val.direction \in {"N", "F", "B"}

-----------------------------------------------------------------------------
(* Runway ends and airport counts *)

\* C34: for a runway with a synthesized, closed secondary end the heading written for
\* the secondary end is the opposed course of the heading written for the primary
\* end, and the positions written for the two ends differ when the length is positive.
C34_StubEndOpposedHeading ==
    Ran("writeRunwaysForAirport") =>
        \A k \in 1..Len(runwaypairs) :
            StubPair(k) =>
                \A p \in RunwayEnds(2 * k - 1), q \in RunwayEnds(2 * k) :
                    /\ q.val.heading = (p.val.heading + 180) % 360
                    /\ runwaypairs[k][1].runway_length > 0 =>
                          <<p.val.lonx, p.val.laty>> # <<q.val.lonx, q.val.laty>>

\* The row of airport AAAA
AirportRows == {a \in Rows(tx, "airport") : a.key = <<"AAAA">>}

\* C37: the num_runway_end_ils of an airport after the runway pass is the number of
\* runway ends of the airport that have a localizer identifier.
C37_IlsCountOfEndsWithLocalizer ==
    Ran("writeRunwaysForAirport") =>
        \A a \in AirportRows :
            a.val.num_runway_end_ils =
                Cardinality({e \in Rows(tx, "runway_end") : e.val.ils_ident # <<>>})

\* C38: after the runway pass the counts of hard, soft and water runways of an airport
\* are not negative, their sum is num_runways when the surface code of the longest
\* runway is H, S or W and they are all 0 otherwise, and num_runways is the number of
\* runway rows written for the airport.
C38_SurfaceCountsSumToRunways ==
    Ran("writeRunwaysForAirport") =>
        \A a \in AirportRows :
            LET surface == SurfaceOf(dfd.longestRunwaySurfaceMap, "AAAA")
                counts == <<a.val.num_runway_hard, a.val.num_runway_soft,
                            a.val.num_runway_water>>
            IN  /\ \A i \in 1..3 : counts[i] >= 0
                /\ surface \in {"H", "S", "W"} =>
                      counts[1] + counts[2] + counts[3] = a.val.num_runways
                /\ surface \notin {"H", "S", "W"} => counts = <<0, 0, 0>>
                /\ a.val.num_runways =
                      Cardinality({r \in Rows(tx, "runway") : r.fk[1] = a.id})

\* C38 witness: two runways have been written for an airport whose longest runway is
\* soft, one counted as hard and one as soft
C38_Witness ==
    /\ Ran("writeRunwaysForAirport")
    /\ SurfaceOf(dfd.longestRunwaySurfaceMap, "AAAA") = "S"
    /\ \E a \in AirportRows :
          /\ a.val.num_runways = 2
          /\ a.val.num_runway_hard = 1
          /\ a.val.num_runway_soft = 1
          /\ a.val.num_runway_water = 0

-----------------------------------------------------------------------------
(* Sequence and fragment numbers of the airway segments *)

\* C35: the segments written for one route name and fragment have the sequence
\* numbers 1, 2, ..., k in the order in which they were written, without gap or
\* repetition, and no two segments have the same name, fragment and sequence number.
C35_SequenceNumbersInEmissionOrder ==
    Ran("writeAirways") =>
        \A a \in Rows(tx, "airway") :
            LET same == Segments(a.key[1], a.val.airway_fragment_no)
            IN  /\ a.val.sequence_no = Cardinality({b \in same : b.id <= a.id})
                /\ {b.val.sequence_no : b \in same} = 1..Cardinality(same)
                /\ \A b \in same : b.val.sequence_no = a.val.sequence_no => b = a

\* C35 witness: a fragment of two segments and a later fragment of the same route
\* have been written
C35_Witness ==
    /\ Ran("writeAirways")
    /\ \E a \in Rows(tx, "airway") :
          /\ a.val.sequence_no = 2
          /\ \E b \in Rows(tx, "airway") :
                /\ b.key = a.key
                /\ b.val.airway_fragment_no > a.val.airway_fragment_no
                /\ b.val.sequence_no = 1
                /\ b.id > a.id

\* The fragment numbers of the segments written for a route name
FragmentsOf(name) ==
    {a.val.airway_fragment_no : a \in {b \in Rows(tx, "airway") : b.key = <<name>>}}

\* C36 as stated: the fragment numbers of the segments of every route are 1, 2, ..., m
\* without gaps, wherever the rows that end a route are placed.
C36_FragmentsWithoutGaps ==
    Ran("writeAirways") =>
        \A i \in 1..Len(airways) :
            LET used == FragmentsOf(airways[i].route_identifier)
            IN  used = 1..Cardinality(used)

\* The rows of the route of row i, up to row i, that end the route
EndsBefore(i) ==
    {j \in 1..i : airways[j].route_identifier = airways[i].route_identifier /\ EndsRoute(j)}

\* C36 amended: the fragment number of a segment is 1 plus the number of rows of its
\* route in front of its from-row that end the route; the fragment numbers of a
\* route grow in the order in which the segments are written, with a gap where a row
\* that ends the route is the first row of the route or follows another such row.
C36_FragmentCountsEndsOfRoute ==
    Ran("writeAirways") =>
        /\ \A i \in 1..(Len(airways) - 1) : \A a \in SegmentsFromTo(i, i + 1) :
              a.val.airway_fragment_no = 1 + Cardinality(EndsBefore(i))
        /\ \A a, b \in Rows(tx, "airway") :
              (a.key = b.key /\ a.id < b.id) =>
                  a.val.airway_fragment_no <= b.val.airway_fragment_no

\* C36 witness: the first two rows of a route, which is not the first route of the
\* query, end the route, and the only segment of that route has fragment number 3
C36_Witness ==
    /\ Ran("writeAirways")
    /\ \E i \in 2..(Len(airways) - 1) :
          /\ EndsRoute(i) /\ EndsRoute(i + 1)
          /\ airways[i].route_identifier = airways[i + 1].route_identifier
          /\ \A j \in 1..(i - 1) : airways[j].route_identifier # airways[i].route_identifier
          /\ FragmentsOf(airways[i].route_identifier) = {3}

-----------------------------------------------------------------------------
(* Empty source tables *)

\* The airport rows as writeAirports has written them
AirportsAsWritten ==
    writeAirports(IF dfd.airportIndex = <<>> THEN <<>> ELSE SrcAirports,
                  [tx |-> {}, dfd |-> DfdCompilerInit]).tx

\* C33: with an empty source table a load phase writes no row: writeAirports no
\* airport, writeRunways no runway and no runway end and it changes no airport row,
\* writeAirways no airway segment, and writeProcedure hands no leg to the procedure
\* writer, which flushes no procedure record; every phase returns.
C33_EmptySourceWritesNothing ==
    /\ (Ran("writeAirports") /\ dfd.airportIndex = <<>>) => Rows(tx, "airport") = {}
    /\ (Ran("writeRunways") /\ runways = <<>>) =>
          /\ Rows(tx, "runway") = {}
          /\ Rows(tx, "runway_end") = {}
          /\ Rows(tx, "airport") = AirportsAsWritten
          /\ dfd.curRunwayId = 0 /\ dfd.curRunwayEndId = 0
    /\ (Ran("writeAirways") /\ airways = <<>>) => Rows(tx, "airway") = {}
    /\ (Ran("writeProcedure") /\ procedures = <<>>) =>
          /\ \A k \in DOMAIN Calls : Calls[k].op # "write"
          /\ ProcWriterRecords(Calls, 0) = 0
          /\ curFn = "done"
    /\ (Ran("writeProcedure") /\ procedures = <<>> /\ runways = <<>> /\ airways = <<>>
            /\ dfd.airportIndex = <<>>) => tx = {}

\* C33 witness: all four phases have run on empty source tables and have returned,
\* and the store is empty
C33_Witness ==
    /\ log = <<"writeAirports", "writeRunways", "writeAirways", "writeProcedure">>
    /\ curFn = "done"
    /\ runways = <<>> /\ airways = <<>> /\ procedures = <<>>
    /\ dfd.airportIndex = <<>>
    /\ tx = {}
    /\ Len(Calls) = 2

-----------------------------------------------------------------------------
(* Progress accounting *)

\* C39: in a run in which the callback never asks for an abort the progress steps
\* reported so far never exceed the total createInternal has announced, for every
\* source type and every combination of the options.
C39_ProgressWithinTotal ==
    ~requested => progressCur <= ProgressTotal

\* Probe: the steps of a full Navigraph run with every option on stay within the
\* total
P39_DfdDefaultWithinTotal ==
    (sim = "NAVIGRAPH" /\ opts = DefaultOptions /\ ~requested) =>
        progressCur <= ProgressTotal

\* Probe: a full Navigraph run without the database report stays within the total
P39_DfdNoReportWithinTotal ==
    (sim = "NAVIGRAPH" /\ ~requested /\ ~opts.databaseReport
        /\ \A f \in DOMAIN opts : f # "databaseReport" => opts[f] = DefaultOptions[f]) =>
        progressCur <= ProgressTotal

====
